---------------------------- MODULE Spec2Model ----------------------------
(***************************************************************************)
(* OST-Radar: the UART frame synchronizer (ti_radar/sensor.py), the TLV    *)
(* frame parser (ti_radar/parser.py) and the acquisition loop of the       *)
(* recorder (radar.py, RadarWorker.run).                                   *)
(*                                                                         *)
(* Bytes are the integers 0..255.  The serial byte source is a sequence of *)
(* bytes in which GAP marks a pause of the device longer than the read     *)
(* timeout; the end of the sequence is silence (every read times out).     *)
(*                                                                         *)
(* Spec is the worker loop calling get_next_frame on a stream of frames,   *)
(* false starts and pauses, one step per serial read.  ParseSpec is        *)
(* parse_standard_frame alone, one step per TLV, on buffers of any length. *)
(* Unsigned 32-bit fields are taken up to 2^31 - 1.  SplitSpec is Spec on  *)
(* one well-formed frame sent with pauses at any positions.                *)
(*                                                                         *)
(* DecodeSpec is the legacy sub-decoders of radar/utils/parseTLVs.py, one  *)
(* step per record.  ConfigSpec is RadarConfig (ti_radar/config.py), one   *)
(* step per line of the .cfg file.  ProcessSpec is process_radar_frame     *)
(* (main.py) called frame after frame with the background it returned;     *)
(* its floats are exact rationals.  RecSpec is RadarWorker.run with the    *)
(* recording toggle, on the frames get_next_frame delivers; PairSpec is    *)
(* the same loop statement by statement against toggle_recording of the    *)
(* GUI thread.                                                             *)
(*                                                                         *)
(* DisplaySpec is the display loop of main.py with adaptive_color_scale.   *)
(* CadenceSpec is the moving-energy sum of studio.py.  ScanSpec is Spec on *)
(* arbitrary bytes followed by one frame.  LegacySpec is the magic-word    *)
(* loop of radar/utils/UARTconnection.py on the same byte sequences.       *)
(* LiveSpec is SplitSpec with one pause, under weak fairness of the        *)
(* reader's steps.                                                         *)
(***************************************************************************)
EXTENDS Integers, Sequences, FiniteSets, TLC

(***************************************************************************)
(* Bounds of the model.                                                    *)
(***************************************************************************)
MaxFrames == 3
MaxCalls == 5
MaxTlvs == 2
MaxTlvLen == 3
MaxCut == 2

(***************************************************************************)
(* Program constants.                                                      *)
(***************************************************************************)
UART_MAGIC_WORD == <<2, 1, 4, 3, 6, 5, 8, 7>>
MagicLen == 8
MaxFrameLength == 100000
MinFrameLength == 16
frameHeaderLen == 40
tlvHeaderLength == 8
TLV_DETECTED_POINTS == 1
TLV_RANGE_DOPPLER_HEAT_MAP == 5

GAP == -1

(***************************************************************************)
(* Little-endian integers: int.from_bytes(b, 'little') and struct 'I'/'H'. *)
(***************************************************************************)
FromLE32(b) == b[1] + 256 * b[2] + 65536 * b[3] + 16777216 * b[4]

FromLE16(b) == b[1] + 256 * b[2]

U32(n) == << n % 256, (n \div 256) % 256, (n \div 65536) % 256, (n \div 16777216) % 256 >>

Min(a, b) == IF a < b THEN a ELSE b

(***************************************************************************)
(* Optional values of the result dictionary: a key that is None or absent. *)
(***************************************************************************)
Absent == [present |-> FALSE, val |-> <<>>]

Some(v) == [present |-> TRUE, val |-> v]

AbsentNum == [present |-> FALSE, val |-> 0]

SomeNum(n) == [present |-> TRUE, val |-> n]


(***************************************************************************)
(* ti_radar/parser.py                                                      *)
(***************************************************************************)

(* outputDict as created at the top of parse_standard_frame.  raised is    *)
(* TRUE when an exception left a sub-decoder uncaught.                     *)
NewOutputDict ==
    [error |-> 0, pointCloud |-> Absent, RDHM |-> Absent,
     frameNum |-> AbsentNum, raised |-> FALSE]

(* np.frombuffer(tlvData, dtype=np.uint16): fails unless the byte count is *)
(* a multiple of the element size; otherwise the little-endian samples.    *)
frombuffer_uint16(tlvData) ==
    IF Len(tlvData) % 2 # 0
      THEN [raises |-> TRUE, val |-> <<>>]
      ELSE [raises |-> FALSE,
            val |-> [i \in 1..(Len(tlvData) \div 2) |->
                        FromLE16(<<tlvData[2 * i - 1], tlvData[2 * i]>>)]]

(* The decoder with its try/except removed: the ValueError propagates.     *)
parseDopplerTLV_uncaught(tlvData, tlvLength, outputDict) ==
    LET r == frombuffer_uint16(tlvData)
    IN  IF r.raises
          THEN [outputDict EXCEPT !.raised = TRUE]
          ELSE [outputDict EXCEPT !.RDHM = Some(r.val)]

parseDopplerTLV(tlvData, tlvLength, outputDict) ==
    LET r == frombuffer_uint16(tlvData)
    IN  IF r.raises
          THEN outputDict
          ELSE [outputDict EXCEPT !.RDHM = Some(r.val)]

(* The body of this decoder is "pass".                                     *)
parsePointCloudTLV(tlvData, tlvLength, outputDict) == outputDict

PARSER_FUNCTIONS == {TLV_DETECTED_POINTS, TLV_RANGE_DOPPLER_HEAT_MAP}

(* Dispatch that wipes the heatmap on a type it does not know.             *)
CallParser_wipe(tlvType, tlvData, tlvLength, outputDict) ==
    IF tlvType = TLV_RANGE_DOPPLER_HEAT_MAP
      THEN parseDopplerTLV(tlvData, tlvLength, outputDict)
      ELSE [outputDict EXCEPT !.RDHM = Absent]

(* "if tlvType in PARSER_FUNCTIONS: PARSER_FUNCTIONS[tlvType](...)"        *)
CallParser(tlvType, tlvData, tlvLength, outputDict) ==
    IF tlvType \in PARSER_FUNCTIONS
      THEN IF tlvType = TLV_RANGE_DOPPLER_HEAT_MAP
             THEN parseDopplerTLV(tlvData, tlvLength, outputDict)
             ELSE parsePointCloudTLV(tlvData, tlvLength, outputDict)
      ELSE outputDict

Drop(s, n) == SubSeq(s, n + 1, Len(s))

Take(s, n) == SubSeq(s, 1, n)

(* One iteration with the payload-length check missing: the decoder gets   *)
(* whatever bytes are left.                                                *)
TlvIteration_nocheck(frameData, outputDict) ==
    IF Len(frameData) < tlvHeaderLength
      THEN [frameData |-> frameData, outputDict |-> outputDict, brk |-> TRUE]
      ELSE LET tlvType == FromLE32(SubSeq(frameData, 1, 4))
               tlvLength == FromLE32(SubSeq(frameData, 5, 8))
               rest == Drop(frameData, tlvHeaderLength)
               n == Min(tlvLength, Len(rest))
               out == CallParser(tlvType, Take(rest, n), tlvLength, outputDict)
           IN  [frameData |-> Drop(rest, n), outputDict |-> out,
                brk |-> out.raised]

(* One iteration of "for _ in range(numTLVs)": brk is TRUE when the loop   *)
(* is left (a break, or an exception on its way out).                      *)
TlvIteration(frameData, outputDict) ==
    IF Len(frameData) < tlvHeaderLength
      THEN [frameData |-> frameData, outputDict |-> outputDict, brk |-> TRUE]
      ELSE LET tlvType == FromLE32(SubSeq(frameData, 1, 4))
               tlvLength == FromLE32(SubSeq(frameData, 5, 8))
               rest == Drop(frameData, tlvHeaderLength)
           IN  IF Len(rest) < tlvLength
                 THEN [frameData |-> rest, outputDict |-> outputDict,
                       brk |-> TRUE]
                 ELSE LET out == CallParser(tlvType, Take(rest, tlvLength),
                                            tlvLength, outputDict)
                      IN  [frameData |-> IF out.raised THEN rest
                                         ELSE Drop(rest, tlvLength),
                           outputDict |-> out, brk |-> out.raised]

RECURSIVE TlvLoop(_, _, _)
TlvLoop(frameData, outputDict, numTLVs) ==
    IF numTLVs = 0
      THEN outputDict
      ELSE LET s == TlvIteration(frameData, outputDict)
           IN  IF s.brk THEN s.outputDict
               ELSE TlvLoop(s.frameData, s.outputDict, numTLVs - 1)

(* struct.unpack('Q8I', frameData[:40]): magic, version, totalPacketLen,   *)
(* platform, frameNum, timeCPUCycles, numDetectedObj, numTLVs, subFrameNum *)
HeaderFrameNum(frameData) == FromLE32(SubSeq(frameData, 21, 24))

HeaderNumTLVs(frameData) == FromLE32(SubSeq(frameData, 33, 36))

HeaderTooShort(frameData) == Len(frameData) < frameHeaderLen

(* A header step that takes frameNum from the totalPacketLen field.        *)
ParsedHeader_wrongfield(frameData) ==
    IF HeaderTooShort(frameData)
      THEN [NewOutputDict EXCEPT !.error = 1]
      ELSE [NewOutputDict EXCEPT
              !.frameNum = SomeNum(FromLE32(SubSeq(frameData, 13, 16)))]

(* Lines 37-51: the dictionary after the header step.                      *)
ParsedHeader(frameData) ==
    IF HeaderTooShort(frameData)
      THEN [NewOutputDict EXCEPT !.error = 1]
      ELSE [NewOutputDict EXCEPT !.frameNum = SomeNum(HeaderFrameNum(frameData))]

parse_standard_frame(frameData) ==
    LET out == ParsedHeader(frameData)
    IN  IF out.error = 1
          THEN out
          ELSE TlvLoop(Drop(frameData, frameHeaderLen), out,
                       HeaderNumTLVs(frameData))


(***************************************************************************)
(* ti_radar/sensor.py: the byte source and the frames put on it.           *)
(***************************************************************************)
VARIABLES
    sent,           \* the items the device sends, in order
    stream,         \* data_com: the bytes (and pauses) of the whole session
    pos,            \* number of elements of stream consumed by reads
    pc,             \* read_raw_frame: "idle", "scan", "header", "payload"
    index,          \* read_raw_frame: match index into the magic word
    frameData,      \* read_raw_frame: candidate buffer
    bytes_to_read,  \* read_raw_frame: payload bytes still to read
    payload,        \* read_raw_frame: payload read so far
    callStart,      \* pos when the running call began
    results,        \* one record per finished get_next_frame call
    wpc,            \* RadarWorker.run: "top", "call", "got", "exited"
    is_running,     \* RadarWorker.is_running
    workerErrors,   \* number of "Worker Error" lines printed
    pin,            \* parser input: how the buffer was built
    pbuf,           \* parser input: the buffer given to parse_standard_frame
    pdata,          \* parse_standard_frame: frameData (the bytes not yet cut off)
    pout,           \* parse_standard_frame: outputDict
    pleft,          \* parse_standard_frame: iterations of the TLV loop left
    ppc             \* parse_standard_frame: "start", "loop", "done"

sensorVars == <<sent, stream, pos, pc, index, frameData, bytes_to_read,
                payload, callStart, results, wpc, is_running, workerErrors>>

parserVars == <<pin, pbuf, pdata, pout, pleft, ppc>>

(* The legacy TLV sub-decoders (radar/utils/parseTLVs.py), run one record   *)
(* at a time on the TLV data of one TLV.                                   *)
VARIABLES
    dkind,          \* which decoder runs: "pointCloud", "track", "vitals"
    dlen,           \* the decoder's tlvLength argument
    dgiven,         \* the decoder's tlvData argument as it was passed
    ddata,          \* the decoder's tlvData, cut as records are unpacked
    di,             \* the loop variable i
    dnum,           \* numPoints / numDetectedTargets
    darray,         \* pointCloud (all its rows) / targets (the rows written)
    dlast,          \* targetData / vitalsData: the last record unpacked
    dout,           \* the keys the decoder has set in outputDict
    dframe,         \* parse_standard_frame on the same TLV as a type-1 TLV
    dpc             \* "start", "loop", "end", "done", "raised"

decodeVars == <<dkind, dlen, dgiven, ddata, di, dnum, darray, dlast, dout,
                dframe, dpc>>

(* RadarConfig._parse_file (ti_radar/config.py), one line per step.         *)
VARIABLES
    ctext,          \* the lines of the configuration file
    lines,          \* the filtered lines the loop has not seen yet
    antennas,       \* the local dictionary antennas
    chirpProf,      \* self.chirpProf
    frameCfg,       \* self.frameCfg
    cfields,        \* the attributes set by the calculations
    cerr,           \* the exception that left the constructor, or "none"
    cpc             \* "open", "scan", "calc", "done", "failed"

configVars == <<ctext, lines, antennas, chirpProf, frameCfg, cfields, cerr,
                cpc>>

(* main.py: process_radar_frame called frame after frame with the          *)
(* background it returned the time before.                                 *)
VARIABLES
    raw_signals,    \* the raw_data of the calls, in order
    ncalls,         \* number of calls made
    cfg_params,     \* cfg_params.ADCsamples and cfg_params.numLoops
    min_range_bin,  \* min_range_bin of create_axes
    background,     \* background as returned by the last call
    processed_data, \* the matrix returned by the last call, or None
    praised         \* TRUE when the last call raised (reshape: ValueError)

mainVars == <<raw_signals, ncalls, cfg_params, min_range_bin, background,
              processed_data, praised>>

(* radar.py: RadarWorker with its recording state, on the frames that      *)
(* get_next_frame delivers.  The loop position, is_running and the count   *)
(* of printed errors are wpc, is_running and workerErrors above.           *)
VARIABLES
    delivered,      \* what get_next_frame returns, call by call
    rnext,          \* number of frames delivered so far
    bins,           \* num_range_bins, num_vel_bins and max_bin
    is_recording,   \* RadarWorker.is_recording
    recorded_session_rdhm,        \* RadarWorker.recorded_session_rdhm
    recorded_session_timestamps,  \* RadarWorker.recorded_session_timestamps
    emitted         \* the matrices sent with new_heatmap.emit, in order

recVars == <<delivered, rnext, bins, is_recording, recorded_session_rdhm,
             recorded_session_timestamps, emitted>>

(* main.py: the display loop of main() from line 128 on.                   *)
VARIABLES
    shown,          \* processed_data of the loop iterations, in order
    miter,          \* number of iterations begun
    frame_count,    \* main(): frame_count
    clim,           \* the bounds last given to mesh.set_clim
    displayed,      \* the matrices given to mesh.set_array, in order
    merror          \* TRUE once "except Exception" has ended the loop

displayVars == <<shown, miter, frame_count, clim, displayed, merror>>

(* studio.py: the cadence analysis of _process_and_plot.                   *)
VARIABLES
    md_data,        \* the energy per time step and Doppler bin
    dop_res,        \* meta['doppler_res'], in hundredths of m/s
    moving_energy   \* the moving-limb energy of the time steps done so far

cadenceVars == <<md_data, dop_res, moving_energy>>

(* radar/utils/UARTconnection.py: the scan loop of                         *)
(* readAndParseUartDoubleCOMPort.                                          *)
VARIABLES
    dataCom,          \* the bytes of the port and how many have been read
    legacy_magicByte,        \* the byte read last, <<>> before the first read
    legacy_index,     \* index
    legacy_frameData, \* frameData
    legacy_pc         \* "start", "loop", "locked" or "idle"

legacyVars == <<dataCom, legacy_magicByte, legacy_index, legacy_frameData,
               legacy_pc>>

(* radar.py: RadarRecorderApp.toggle_recording next to the worker, whose   *)
(* loop body is taken statement by statement.                              *)
VARIABLES
    app_is_recording,   \* RadarRecorderApp.is_recording
    gui_pc,             \* "idle", inside start_recording, or "stopped"
                        \* between stop_recording and the reading of the
                        \* lists it returned
    run_rd_matrix_cropped,  \* the local rd_matrix_cropped of RadarWorker.run
    sessions,           \* what toggle_recording has saved with savez_compressed
    since               \* the frames handled when start_recording was called

toggleVars == <<app_is_recording, gui_pc, run_rd_matrix_cropped, sessions, since>>

auxVars == <<displayVars, cadenceVars, legacyVars, toggleVars>>

extVars == <<decodeVars, configVars, mainVars, recVars, auxVars>>

(* The sensor state that the worker itself does not hold.                  *)
readerVars == <<sent, stream, pos, pc, index, frameData, bytes_to_read,
                payload, callStart, results>>

(* What the steps of the recording worker leave alone.                     *)
notRec == <<readerVars, parserVars, decodeVars, configVars, mainVars, auxVars>>

(* What the steps of the sub-decoders leave alone.                         *)
notDecode == <<sensorVars, parserVars, configVars, mainVars, recVars,
               auxVars>>

(* What the steps of RadarConfig leave alone.                              *)
notConfig == <<sensorVars, parserVars, decodeVars, mainVars, recVars,
               auxVars>>

(* What the calls of process_radar_frame leave alone.                      *)
notMain == <<sensorVars, parserVars, decodeVars, configVars, recVars,
             auxVars>>

vars == <<sensorVars, parserVars, extVars>>

DecodeIdle ==
    /\ dkind = "none"
    /\ dlen = 0
    /\ dgiven = <<>>
    /\ ddata = <<>>
    /\ di = 0
    /\ dnum = 0
    /\ darray = <<>>
    /\ dlast = Absent
    /\ dout = [raised |-> FALSE]
    /\ dframe = NewOutputDict
    /\ dpc = "done"

(* A dictionary that has no keys yet.                                      *)
EmptyDict == [present |-> FALSE]

NoFields == [present |-> FALSE]

ConfigIdle ==
    /\ ctext = <<>>
    /\ lines = <<>>
    /\ antennas = [txAntennas |-> 0, rxAntenna |-> 0]
    /\ chirpProf = EmptyDict
    /\ frameCfg = EmptyDict
    /\ cfields = NoFields
    /\ cerr = "none"
    /\ cpc = "done"

SensorIdle ==
    /\ sent = <<>>
    /\ stream = <<>>
    /\ pos = 0
    /\ pc = "idle"
    /\ index = 0
    /\ frameData = <<>>
    /\ bytes_to_read = 0
    /\ payload = <<>>
    /\ callStart = 0
    /\ results = <<>>
    /\ wpc = "top"
    /\ is_running = TRUE
    /\ workerErrors = 0

(* None, for a matrix.                                                     *)
NoMatrix == [present |-> FALSE, den |-> 1, m |-> <<>>]

MainIdle ==
    /\ raw_signals = <<>>
    /\ ncalls = 0
    /\ cfg_params = [ADCsamples |-> 0, numLoops |-> 0]
    /\ min_range_bin = 1
    /\ background = NoMatrix
    /\ processed_data = NoMatrix
    /\ praised = FALSE

RecIdle ==
    /\ delivered = <<>>
    /\ rnext = 0
    /\ bins = [num_range_bins |-> 0, num_vel_bins |-> 0, max_bin |-> 0]
    /\ is_recording = FALSE
    /\ recorded_session_rdhm = <<>>
    /\ recorded_session_timestamps = <<>>
    /\ emitted = <<>>

DisplayIdle ==
    /\ shown = <<>>
    /\ miter = 0
    /\ frame_count = 0
    /\ clim = [vmin |-> 0, vmax |-> 0]
    /\ displayed = <<>>
    /\ merror = FALSE

CadenceIdle ==
    /\ md_data = <<>>
    /\ dop_res = 0
    /\ moving_energy = <<>>

LegacyIdle ==
    /\ dataCom = [bytes |-> <<>>, at |-> 0]
    /\ legacy_magicByte = <<>>
    /\ legacy_index = 0
    /\ legacy_frameData = <<>>
    /\ legacy_pc = "idle"

ToggleIdle ==
    /\ app_is_recording = FALSE
    /\ gui_pc = "idle"
    /\ run_rd_matrix_cropped = <<>>
    /\ sessions = <<>>
    /\ since = 0

AuxIdle == DisplayIdle /\ CadenceIdle /\ LegacyIdle /\ ToggleIdle

(* The later groups idle, but for group g.                                 *)
OthersIdle(g) ==
    /\ IF g = "display" THEN TRUE ELSE DisplayIdle
    /\ IF g = "cadence" THEN TRUE ELSE CadenceIdle
    /\ IF g = "legacy" THEN TRUE ELSE LegacyIdle
    /\ IF g = "toggle" THEN TRUE ELSE ToggleIdle

(* The groups above, which the steps of the later ones leave alone.        *)
coreVars == <<sensorVars, parserVars, decodeVars, configVars, mainVars,
              recVars>>

notDisplay == <<coreVars, cadenceVars, legacyVars, toggleVars>>

notCadence == <<coreVars, displayVars, legacyVars, toggleVars>>

notLegacy == <<coreVars, displayVars, cadenceVars, toggleVars>>

(* What neither the worker nor toggle_recording touches.                   *)
notToggle == <<readerVars, parserVars, decodeVars, configVars, mainVars,
               displayVars, cadenceVars, legacyVars>>

ExtIdle == DecodeIdle /\ ConfigIdle /\ MainIdle /\ RecIdle /\ AuxIdle

(* data_com.read(n) at position p: the bytes up to n, a pause or the end   *)
(* of the stream, whichever comes first; a pause that cut the read short   *)
(* is used up by it.                                                       *)
ReadCount(s, p, n) ==
    LET m == Min(n, Len(s) - p)
    IN  CHOOSE k \in 0..m :
            /\ \A j \in 1..k : s[p + j] # GAP
            /\ (k = m \/ s[p + k + 1] = GAP)

ReadData(s, p, n) == SubSeq(s, p + 1, p + ReadCount(s, p, n))

ReadEnd(s, p, n) ==
    LET k == ReadCount(s, p, n)
    IN  IF k < n /\ p + k < Len(s) THEN p + k + 1 ELSE p + k

(* The frames of the test streams.                                         *)
HeaderVersion == 1027

MkFrame(num, ntlv, tlvs, lenField) ==
    UART_MAGIC_WORD \o U32(HeaderVersion) \o U32(lenField) \o U32(0)
        \o U32(num) \o U32(0) \o U32(0) \o U32(ntlv) \o U32(0) \o tlvs

MkTlv(type, declared, data) == U32(type) \o U32(declared) \o data

UnknownType == 9

RdhmTlv == MkTlv(TLV_RANGE_DOPPLER_HEAT_MAP, 4, <<1, 0, 2, 1>>)

MagicTlv == MkTlv(UnknownType, MagicLen, UART_MAGIC_WORD)

GoodFrame(num, ntlv, tlvs) ==
    [kind |-> "good", num |-> num,
     bytes |-> MkFrame(num, ntlv, tlvs, frameHeaderLen + Len(tlvs))]

BadFrame(num, ntlv, tlvs, lenField) ==
    [kind |-> "bad", num |-> num, bytes |-> MkFrame(num, ntlv, tlvs, lenField)]

GoodFrames ==
    {GoodFrame(1, 1, RdhmTlv), GoodFrame(258, 1, MagicTlv), GoodFrame(7, 0, <<>>)}

(* Length fields that are wrong: below 16, above 100000, and inside the     *)
(* accepted range but 8 more than the frame's 52 bytes.                    *)
BadFrames ==
    {BadFrame(9, 1, RdhmTlv, 5), BadFrame(9, 1, MagicTlv, 131072),
     BadFrame(9, 1, RdhmTlv, 60)}

OtherItems ==
    {[kind |-> "noise", num |-> 0, bytes |-> <<2, 1>>],
     [kind |-> "gap", num |-> 0, bytes |-> <<GAP>>]}

Items == GoodFrames \cup BadFrames \cup OtherItems

RECURSIVE Cat(_)
Cat(items) ==
    IF items = <<>> THEN <<>> ELSE Head(items).bytes \o Cat(Tail(items))

RECURSIVE ItemSeqs(_)
ItemSeqs(n) ==
    IF n = 0 THEN {<<>>}
    ELSE LET S == ItemSeqs(n - 1)
         IN  S \cup {Append(s, i) : s \in {t \in S : Len(t) = n - 1}, i \in Items}

(***************************************************************************)
(* get_next_frame: None for no raw bytes, else the parsed dictionary.      *)
(***************************************************************************)
NoneFrame == [none |-> TRUE, d |-> NewOutputDict]

get_next_frame(raw_bytes) ==
    IF raw_bytes = <<>> THEN NoneFrame
    ELSE [none |-> FALSE, d |-> parse_standard_frame(raw_bytes)]

ParserIdle ==
    /\ pin = [ntlv |-> 0, tlvs |-> <<>>, len |-> 0]
    /\ pbuf = <<>>
    /\ pdata = <<>>
    /\ pout = NewOutputDict
    /\ pleft = 0
    /\ ppc = "done"

Init ==
    /\ sent \in ItemSeqs(MaxFrames)
    /\ stream = Cat(sent)
    /\ pos = 0
    /\ pc = "idle"
    /\ index = 0
    /\ frameData = <<>>
    /\ bytes_to_read = 0
    /\ payload = <<>>
    /\ callStart = 0
    /\ results = <<>>
    /\ wpc = "top"
    /\ is_running = TRUE
    /\ workerErrors = 0
    /\ ParserIdle
    /\ ExtIdle

(* A reader that keeps an unfinished match, index and candidate buffer,    *)
(* from the call before.                                                   *)
FreshScan_kept(i, buf) ==
    IF i < MagicLen THEN [index |-> i, frameData |-> buf]
    ELSE [index |-> 0, frameData |-> <<>>]

(* sensor.py 49-50: index and frameData are locals, set anew by every      *)
(* call and gone when it returns.                                          *)
FreshScan(i, buf) == [index |-> 0, frameData |-> <<>>]

(* The end of a read_raw_frame call (raw = <<>> for None), of the          *)
(* get_next_frame call around it, and the return into RadarWorker.run.     *)
Return(raw, cause, end) ==
    /\ results' = Append(results,
                         [raw |-> raw, cause |-> cause, from |-> callStart,
                          to |-> end, frame |-> get_next_frame(raw)])
    /\ pos' = end
    /\ pc' = "idle"
    /\ index' = FreshScan(index, frameData).index
    /\ frameData' = FreshScan(index, frameData).frameData
    /\ bytes_to_read' = 0
    /\ payload' = <<>>
    /\ wpc' = "got"
    /\ UNCHANGED <<sent, stream, callStart, is_running, workerErrors,
                   parserVars, extVars>>

(* radar.py 72-74: the loop test and the call; sensor.py 49-50.            *)
WorkerCall ==
    /\ wpc = "top"
    /\ is_running
    /\ Len(results) < MaxCalls
    /\ wpc' = "call"
    /\ pc' = "scan"
    /\ index' = FreshScan(index, frameData).index
    /\ frameData' = FreshScan(index, frameData).frameData
    /\ callStart' = pos
    /\ UNCHANGED <<sent, stream, pos, bytes_to_read, payload, results,
                   is_running, workerErrors, parserVars, extVars>>

WorkerExit ==
    /\ wpc = "top"
    /\ ~is_running
    /\ wpc' = "exited"
    /\ UNCHANGED <<sent, stream, pos, pc, index, frameData, bytes_to_read,
                   payload, callStart, results, is_running, workerErrors,
                   parserVars, extVars>>

(* A scan step that drops the mismatching byte whatever it is.             *)
ScanStep_norestart(i, buf, b) ==
    IF b = UART_MAGIC_WORD[i + 1]
      THEN [index |-> i + 1, frameData |-> Append(buf, b)]
      ELSE [index |-> 0, frameData |-> <<>>]

(* sensor.py 58-69: the scan step on a byte b: the new match index and     *)
(* candidate buffer.                                                       *)
ScanStep(i, buf, b) ==
    IF b = UART_MAGIC_WORD[i + 1]
      THEN [index |-> i + 1, frameData |-> Append(buf, b)]
      ELSE IF b = UART_MAGIC_WORD[1]
             THEN [index |-> 1, frameData |-> <<b>>]
             ELSE [index |-> 0, frameData |-> <<>>]

(* sensor.py 53-69: one pass of the scan loop.                             *)
ScanByte ==
    /\ pc = "scan"
    /\ LET magicByte == ReadData(stream, pos, 1)
           end == ReadEnd(stream, pos, 1)
       IN  IF magicByte = <<>>
             THEN Return(<<>>, "timeout", end)
             ELSE LET s == ScanStep(index, frameData, magicByte[1])
                  IN  /\ index' = s.index
                      /\ frameData' = s.frameData
                      /\ pos' = end
                      /\ pc' = IF s.index = MagicLen THEN "header" ELSE "scan"
                      /\ UNCHANGED <<sent, stream, bytes_to_read, payload,
                                     callStart, results, wpc, is_running,
                                     workerErrors, parserVars, extVars>>

(* The sanity check without its lower limit.                               *)
LengthAccepted_nolower(frameLength) == ~(frameLength > MaxFrameLength)

(* sensor.py 83: "if frameLength > 100000 or frameLength < 16: reject".    *)
LengthAccepted(frameLength) ==
    ~(frameLength > MaxFrameLength \/ frameLength < MinFrameLength)

(* A payload size that forgets the version and length bytes already read.  *)
PayloadSize_magiconly(frameLength) == frameLength - MagicLen

(* sensor.py 86: "bytes_to_read = frameLength - 16".                       *)
PayloadSize(frameLength) == frameLength - 16

(* sensor.py 72-87: the version and length reads and the sanity check.     *)
ReadHeader ==
    /\ pc = "header"
    /\ LET versionBytes == ReadData(stream, pos, 4)
           p1 == ReadEnd(stream, pos, 4)
           lengthBytes == ReadData(stream, p1, 4)
           p2 == ReadEnd(stream, p1, 4)
       IN  IF Len(versionBytes) < 4 \/ Len(lengthBytes) < 4
             THEN Return(<<>>, "truncatedHeader", p2)
             ELSE IF ~LengthAccepted(FromLE32(lengthBytes))
                    THEN Return(<<>>, "badLength", p2)
                    ELSE /\ frameData' = frameData \o versionBytes \o lengthBytes
                         /\ bytes_to_read' = PayloadSize(FromLE32(lengthBytes))
                         /\ payload' = <<>>
                         /\ pos' = p2
                         /\ pc' = "payload"
                         /\ UNCHANGED <<sent, stream, index, callStart, results,
                                        wpc, is_running, workerErrors,
                                        parserVars, extVars>>

(* A payload loop that hands over what it has when a read comes back      *)
(* empty.                                                                  *)
PayloadTimeout_partial(buf, part) == buf \o part

(* sensor.py 93-94: "if not chunk: return None".                           *)
PayloadTimeout(buf, part) == <<>>

(* A payload loop that forgets to count the bytes it got.                  *)
StillToRead_forgotten(n, chunk) == n

(* sensor.py 95: "bytes_to_read -= len(chunk)".                            *)
StillToRead(n, chunk) == n - Len(chunk)

(* sensor.py 90-95: one pass of the payload loop.                          *)
ReadPayload ==
    /\ pc = "payload"
    /\ bytes_to_read > 0
    /\ LET chunk == ReadData(stream, pos, bytes_to_read)
           end == ReadEnd(stream, pos, bytes_to_read)
       IN  IF chunk = <<>>
             THEN Return(PayloadTimeout(frameData, payload),
                         "truncatedPayload", end)
             ELSE /\ payload' = payload \o chunk
                  /\ bytes_to_read' = StillToRead(bytes_to_read, chunk)
                  /\ pos' = end
                  /\ UNCHANGED <<sent, stream, pc, index, frameData, callStart,
                                 results, wpc, is_running, workerErrors,
                                 parserVars, extVars>>

(* sensor.py 97-98 and 102-105: the frame is returned and parsed.          *)
ReturnFrame ==
    /\ pc = "payload"
    /\ ~(bytes_to_read > 0)
    /\ Return(frameData \o payload, "ok", pos)

LastFrame == results[Len(results)].frame

(* A worker that leaves its loop when no frame came back.                  *)
AfterFrame_quit(frame) == IF frame.none THEN "exited" ELSE "top"

(* radar.py 75-76 and 99-100: "continue", or the except clause: either     *)
(* way the loop goes back to its test.                                     *)
AfterFrame(frame) == "top"

(* radar.py 75-100: a frame without heatmap is skipped; raw_rdhm is a      *)
(* list, so raw_rdhm.size raises AttributeError, which the except clause   *)
(* prints before the loop goes on.                                         *)
WorkerHandle ==
    /\ wpc = "got"
    /\ wpc' = AfterFrame(LastFrame)
    /\ workerErrors' = IF LastFrame.none \/ ~LastFrame.d.RDHM.present
                         THEN workerErrors
                         ELSE workerErrors + 1
    /\ UNCHANGED <<sent, stream, pos, pc, index, frameData, bytes_to_read,
                   payload, callStart, results, is_running, parserVars,
                   extVars>>

(* radar.py 112-113: the GUI thread stops the worker.                      *)
Stop ==
    /\ is_running
    /\ wpc # "exited"
    /\ is_running' = FALSE
    /\ UNCHANGED <<sent, stream, pos, pc, index, frameData, bytes_to_read,
                   payload, callStart, results, wpc, workerErrors, parserVars,
                   extVars>>

Next ==
    \/ WorkerCall
    \/ WorkerExit
    \/ ScanByte
    \/ ReadHeader
    \/ ReadPayload
    \/ ReturnFrame
    \/ WorkerHandle
    \/ Stop

Spec == Init /\ [][Next]_vars

(***************************************************************************)
(* The same program on one well-formed frame that the device sends with    *)
(* pauses inside it.                                                       *)
(***************************************************************************)
MaxGaps == 2

SplitFrame == GoodFrame(7, 0, <<>>)

(* The byte sequence b with at most k pauses put into it.                  *)
RECURSIVE Splits(_, _)
Splits(b, k) ==
    IF k = 0 THEN {b}
    ELSE {b} \cup UNION {{Take(b, p) \o <<GAP>> \o s :
                              s \in Splits(Drop(b, p), k - 1)} :
                           p \in 0..Len(b)}

SplitInit ==
    /\ sent = <<SplitFrame>>
    /\ stream \in Splits(SplitFrame.bytes, MaxGaps)
    /\ pos = 0
    /\ pc = "idle"
    /\ index = 0
    /\ frameData = <<>>
    /\ bytes_to_read = 0
    /\ payload = <<>>
    /\ callStart = 0
    /\ results = <<>>
    /\ wpc = "top"
    /\ is_running = TRUE
    /\ workerErrors = 0
    /\ ParserIdle
    /\ ExtIdle

SplitSpec == SplitInit /\ [][Next]_vars

(* The frame sent with one pause or none, read by a thread that keeps      *)
(* running: a call that has begun takes its next step, each read coming    *)
(* back after the timeout at the latest.                                   *)
ReaderStep == ScanByte \/ ReadHeader \/ ReadPayload \/ ReturnFrame

LiveInit ==
    /\ sent = <<SplitFrame>>
    /\ stream \in Splits(SplitFrame.bytes, 1)
    /\ pos = 0
    /\ pc = "idle"
    /\ index = 0
    /\ frameData = <<>>
    /\ bytes_to_read = 0
    /\ payload = <<>>
    /\ callStart = 0
    /\ results = <<>>
    /\ wpc = "top"
    /\ is_running = TRUE
    /\ workerErrors = 0
    /\ ParserIdle
    /\ ExtIdle

LiveSpec == LiveInit /\ [][Next]_vars /\ WF_vars(ReaderStep)


(***************************************************************************)
(* parse_standard_frame run step by step on buffers of any length: a       *)
(* header, TLVs of known and unknown types with any declared length, cut   *)
(* anywhere near the end or inside the header.                             *)
(***************************************************************************)
HugeCount == 2147483646

ParsedFrameNum == 258

TlvTypes == {TLV_DETECTED_POINTS, TLV_RANGE_DOPPLER_HEAT_MAP, UnknownType}

TlvChoices == [type : TlvTypes, declared : (0..MaxTlvLen) \cup {HugeCount}]

RECURSIVE TlvSeqs(_)
TlvSeqs(n) ==
    IF n = 0 THEN {<<>>}
    ELSE LET S == TlvSeqs(n - 1)
         IN  S \cup {Append(s, t) : s \in {u \in S : Len(u) = n - 1},
                                    t \in TlvChoices}

(* The payload carried by the k-th TLV: as many bytes as it declares (one  *)
(* byte when it declares HugeCount).                                       *)
CarriedLen(t) == IF t.declared = HugeCount THEN 1 ELSE t.declared

CarriedPayload(k, t) == [i \in 1..CarriedLen(t) |-> (16 * k + i) % 256]

(* The bytes of the TLVs k, k+1, ... of tlvs whose position is in keep.    *)
RECURSIVE TlvRegion(_, _, _)
TlvRegion(tlvs, k, keep) ==
    IF k > Len(tlvs) THEN <<>>
    ELSE (IF k \in keep
            THEN MkTlv(tlvs[k].type, tlvs[k].declared, CarriedPayload(k, tlvs[k]))
            ELSE <<>>)
         \o TlvRegion(tlvs, k + 1, keep)

FrameWith(ntlv, tlvs, keep) ==
    LET region == TlvRegion(tlvs, 1, keep)
    IN  MkFrame(ParsedFrameNum, ntlv, region, frameHeaderLen + Len(region))

FullBuffer(ntlv, tlvs) == FrameWith(ntlv, tlvs, 1..Len(tlvs))

BufferLens(full) ==
    {0, frameHeaderLen - 1} \cup {n \in 0..Len(full) : Len(full) - n <= MaxCut}

NumTlvsChoices == (0..MaxTlvs) \cup {HugeCount}

ParseInit ==
    /\ \E n \in NumTlvsChoices, t \in TlvSeqs(MaxTlvs) :
         \E l \in BufferLens(FullBuffer(n, t)) :
            pin = [ntlv |-> n, tlvs |-> t, len |-> l]
    /\ pbuf = Take(FullBuffer(pin.ntlv, pin.tlvs), pin.len)
    /\ pdata = pbuf
    /\ pout = NewOutputDict
    /\ pleft = 0
    /\ ppc = "start"
    /\ sent = <<>>
    /\ stream = <<>>
    /\ pos = 0
    /\ pc = "idle"
    /\ index = 0
    /\ frameData = <<>>
    /\ bytes_to_read = 0
    /\ payload = <<>>
    /\ callStart = 0
    /\ results = <<>>
    /\ wpc = "top"
    /\ is_running = TRUE
    /\ workerErrors = 0
    /\ ExtIdle

(* parser.py 37-51: the header step.                                       *)
ParseStart ==
    /\ ppc = "start"
    /\ pout' = ParsedHeader(pbuf)
    /\ IF pout'.error = 1
         THEN /\ ppc' = "done"
              /\ UNCHANGED <<pdata, pleft>>
         ELSE /\ ppc' = "loop"
              /\ pdata' = Drop(pbuf, frameHeaderLen)
              /\ pleft' = HeaderNumTLVs(pbuf)
    /\ UNCHANGED <<pin, pbuf, sensorVars, extVars>>

(* parser.py 53-70: one iteration of the TLV loop.                         *)
ParseTlv ==
    /\ ppc = "loop"
    /\ pleft > 0
    /\ LET s == TlvIteration(pdata, pout)
       IN  /\ pdata' = s.frameData
           /\ pout' = s.outputDict
           /\ ppc' = IF s.brk THEN "done" ELSE "loop"
           /\ pleft' = IF s.brk THEN pleft ELSE pleft - 1
    /\ UNCHANGED <<pin, pbuf, sensorVars, extVars>>

(* parser.py 72: the loop ran out of iterations.                           *)
ParseReturn ==
    /\ ppc = "loop"
    /\ pleft = 0
    /\ ppc' = "done"
    /\ UNCHANGED <<pin, pbuf, pdata, pout, pleft, sensorVars, extVars>>

ParseNext == ParseStart \/ ParseTlv \/ ParseReturn

ParseSpec == ParseInit /\ [][ParseNext]_vars

(* The stepwise run and the function agree.                                *)
StepwiseAgrees == ppc = "done" => pout = parse_standard_frame(pbuf)


(***************************************************************************)
(* Properties.                                                             *)
(***************************************************************************)
AllGood(items) == \A i \in DOMAIN items : items[i].kind = "good"

HasMagic(b) ==
    \E i \in 1..(Len(b) - MagicLen + 1) :
        SubSeq(b, i, i + MagicLen - 1) = UART_MAGIC_WORD

IsPrefix(a, b) == Len(a) <= Len(b) /\ a = SubSeq(b, 1, Len(a))

RECURSIVE RawFrames(_)
RawFrames(rs) ==
    IF rs = <<>> THEN <<>>
    ELSE (IF Head(rs).raw = <<>> THEN <<>> ELSE <<Head(rs).raw>>)
         \o RawFrames(Tail(rs))

(* The buffers read_raw_frame has returned so far, in order.               *)
Returned == RawFrames(results)

(* A call has timed out with the whole stream consumed.                    *)
StreamSilent ==
    /\ results # <<>>
    /\ results[Len(results)].cause = "timeout"
    /\ results[Len(results)].to = Len(stream)

DeclaredLength(bytes) == FromLE32(SubSeq(bytes, 13, 16))

InRange(n) == MinFrameLength <= n /\ n <= MaxFrameLength

(* C1: a stream of N >= 1 well-formed frames read without a timeout: the   *)
(* i-th get_next_frame call (i <= N) returns a frame, not None, with       *)
(* error = 0 and the frame number of the i-th frame sent.                  *)
C1_RoundTrip ==
    (sent # <<>> /\ AllGood(sent)) =>
        \A i \in DOMAIN results :
            i <= Len(sent) =>
                /\ ~results[i].frame.none
                /\ ~results[i].frame.d.raised
                /\ results[i].frame.d.error = 0
                /\ results[i].frame.d.frameNum = SomeNum(sent[i].num)

C1_Witness ==
    /\ Len(sent) = 3
    /\ AllGood(sent)
    /\ sent[2].num = 258
    /\ Len(results) = 3
    /\ results[3].frame.d.frameNum = SomeNum(sent[3].num)

SentABC ==
    /\ Len(sent) = 3
    /\ sent[1].kind = "good"
    /\ sent[2].kind = "bad"
    /\ sent[3].kind = "good"

OnlyAandC ==
    /\ IsPrefix(Returned, <<sent[1].bytes, sent[3].bytes>>)
    /\ StreamSilent => Returned = <<sent[1].bytes, sent[3].bytes>>

(* C2 as claimed: valid A, then B with any wrong length field, then valid  *)
(* C: the buffers returned are A and C, in that order, and nothing else.   *)
C2_AnyBadLength == SentABC => OnlyAandC

RejectedB ==
    /\ ~InRange(DeclaredLength(sent[2].bytes))
    /\ ~HasMagic(Drop(sent[2].bytes, 16))

(* C2 amended: valid A, then B whose length field is outside 16..100000    *)
(* and whose bytes after the first 16 hold no magic word, then valid C,    *)
(* every read complete: the call that meets B returns None after B's first *)
(* 16 bytes, and the buffers returned are A and C, in that order.          *)
C2_RejectedLength ==
    (SentABC /\ RejectedB) =>
        /\ OnlyAandC
        /\ Len(results) >= 2 =>
              /\ results[2].cause = "badLength"
              /\ results[2].to - results[2].from = 16

C2_Witness ==
    /\ SentABC
    /\ RejectedB
    /\ StreamSilent
    /\ Returned = <<sent[1].bytes, sent[3].bytes>>

FalseStart == <<2, 1, 2, 1, 4, 3, 6, 5, 8, 7>>

(* C3: a byte that mismatches magic[index] but equals magic[0] restarts    *)
(* the candidate buffer with that byte alone and match index 1; on a       *)
(* stream that begins 02 01 02 01 04 03 06 05 08 07 the first call locks   *)
(* after 10 bytes, on the magic word that starts at the third byte.        *)
C3_OverlapRestart ==
    /\ [][(/\ pc = "scan"
           /\ pos' = pos + 1
           /\ stream[pos + 1] # UART_MAGIC_WORD[index + 1]
           /\ stream[pos + 1] = UART_MAGIC_WORD[1])
          => (index' = 1 /\ frameData' = <<stream[pos + 1]>> /\ pc' = "scan")]_vars
    /\ [](( /\ IsPrefix(FalseStart, stream)
            /\ results = <<>>
            /\ pc = "header")
          => (pos = Len(FalseStart) /\ frameData = UART_MAGIC_WORD))

C3_Witness ==
    /\ IsPrefix(FalseStart, stream)
    /\ results = <<>>
    /\ pc = "header"
    /\ pos = 10

(* C4: parse_standard_frame never raises and always reaches its return; a  *)
(* buffer shorter than the 40-byte header gives error = 1, no frame number *)
(* and no decoded field.                                                   *)
C4_ParserTotal ==
    /\ ~pout.raised
    /\ ppc # "done" => ENABLED ParseNext
    /\ (ppc = "done" /\ Len(pbuf) < frameHeaderLen) =>
          /\ pout.error = 1
          /\ ~pout.frameNum.present
          /\ ~pout.RDHM.present
          /\ ~pout.pointCloud.present

C4_Witness ==
    /\ ppc = "done"
    /\ Len(pbuf) = 39
    /\ pout.error = 1

(* Offset in the buffer of the end of the k-th TLV built into it.          *)
RECURSIVE EndOffset(_)
EndOffset(k) ==
    IF k = 0 THEN frameHeaderLen
    ELSE EndOffset(k - 1) + tlvHeaderLength + CarriedLen(pin.tlvs[k])

(* The k-th TLV carries what it declares and lies wholly in the buffer.    *)
Complete(k) ==
    /\ k \in DOMAIN pin.tlvs
    /\ pin.tlvs[k].declared # HugeCount
    /\ EndOffset(k) <= Len(pbuf)

TwoDeclaredOneComplete ==
    /\ pin.ntlv = 2
    /\ Complete(1)
    /\ ~Complete(2)
    /\ pin.tlvs[1].type = TLV_RANGE_DOPPLER_HEAT_MAP
    /\ pin.tlvs[1].declared = 2

(* C5: an iteration that finds fewer than 8 bytes, or fewer bytes than the *)
(* TLV declares, ends the loop and leaves the dictionary as it was, with   *)
(* error = 0 and the frame number; a frame that declares 2 TLVs and holds  *)
(* one complete heatmap TLV returns that heatmap.                          *)
C5_TruncatedTail ==
    /\ [][(/\ ppc = "loop"
           /\ pleft > 0
           /\ \/ Len(pdata) < tlvHeaderLength
              \/ Len(pdata) - tlvHeaderLength < FromLE32(SubSeq(pdata, 5, 8)))
          => (/\ ppc' = "done"
              /\ pout' = pout
              /\ pout.error = 0
              /\ pout.frameNum = SomeNum(ParsedFrameNum))]_vars
    /\ []((ppc = "done" /\ TwoDeclaredOneComplete)
          => (/\ pout.error = 0
              /\ pout.frameNum = SomeNum(ParsedFrameNum)
              /\ pout.RDHM = Some(<<FromLE16(CarriedPayload(1, pin.tlvs[1]))>>)))

C5_Witness ==
    /\ ppc = "done"
    /\ TwoDeclaredOneComplete
    /\ Len(pin.tlvs) = 2
    /\ pin.tlvs[2].type = TLV_RANGE_DOPPLER_HEAT_MAP
    /\ pout.RDHM.present

(* C6: a returned buffer begins with the magic word, is as long as its     *)
(* length field says, and that length is in 16..100000; a call that        *)
(* rejected the length returned None and stopped reading right after the   *)
(* length field, 16 bytes from the start of the magic word.                *)
C6_ReturnedBuffers ==
    \A i \in DOMAIN results :
        LET r == results[i]
        IN  /\ r.raw # <<>> =>
                /\ InRange(Len(r.raw))
                /\ Take(r.raw, MagicLen) = UART_MAGIC_WORD
                /\ Len(r.raw) = DeclaredLength(r.raw)
            /\ r.cause = "badLength" =>
                /\ r.raw = <<>>
                /\ r.frame.none
                /\ r.to - r.from >= 16
                /\ SubSeq(stream, r.to - 15, r.to - 8) = UART_MAGIC_WORD
                /\ ~InRange(FromLE32(SubSeq(stream, r.to - 3, r.to)))

C6_Witness ==
    /\ \E i \in DOMAIN results : Len(results[i].raw) = 56
    /\ \E i \in DOMAIN results : results[i].cause = "badLength"

(* C7: a read that times out in the scan makes the call return None, and   *)
(* the worker leaves its loop only once is_running is false, however many  *)
(* calls timed out.                                                        *)
C7_TimeoutNotFatal ==
    /\ wpc = "exited" => ~is_running
    /\ \A i \in DOMAIN results :
          results[i].cause = "timeout" =>
              (results[i].raw = <<>> /\ results[i].frame.none)

C7_Witness ==
    /\ Len(results) >= 3
    /\ \A i \in DOMAIN results : results[i].cause = "timeout"
    /\ wpc = "call"
    /\ is_running

(* What the caller of get_next_frame / read_raw_frame gets to see.         *)
Visible(r) == [raw |-> r.raw, frame |-> r.frame]

(* C8: what the caller sees after a call tells a timeout from a dropped    *)
(* frame: two calls that look the same to the caller ended the same way.   *)
C8_DropsObservable ==
    \A i, j \in DOMAIN results :
        Visible(results[i]) = Visible(results[j]) =>
            results[i].cause = results[j].cause

(* The complete TLVs of unknown type among those the loop may reach.       *)
Skipped ==
    {k \in DOMAIN pin.tlvs :
        /\ k <= pin.ntlv
        /\ Complete(k)
        /\ pin.tlvs[k].type \notin PARSER_FUNCTIONS}

RECURSIVE SkippedBytes(_)
SkippedBytes(k) ==
    IF k = 0 THEN 0
    ELSE SkippedBytes(k - 1)
         + (IF k \in Skipped
              THEN tlvHeaderLength + CarriedLen(pin.tlvs[k]) ELSE 0)

(* The buffer with the skipped TLVs taken out and numTLVs lowered.         *)
WithoutSkipped ==
    Take(FrameWith(pin.ntlv - Cardinality(Skipped), pin.tlvs,
                   DOMAIN pin.tlvs \ Skipped),
         Len(pbuf) - SkippedBytes(Len(pin.tlvs)))

(* C9: an iteration on a complete TLV of unknown type moves the cursor by  *)
(* 8 + length and leaves the dictionary alone, and the result of the parse *)
(* is the result for the same frame without its unknown TLVs.              *)
C9_UnknownSkipped ==
    /\ [][(/\ ppc = "loop"
           /\ pleft > 0
           /\ Len(pdata) >= tlvHeaderLength
           /\ FromLE32(SubSeq(pdata, 1, 4)) \notin PARSER_FUNCTIONS
           /\ Len(pdata) - tlvHeaderLength >= FromLE32(SubSeq(pdata, 5, 8)))
          => (/\ pout' = pout
              /\ pdata' = Drop(pdata, tlvHeaderLength + FromLE32(SubSeq(pdata, 5, 8)))
              /\ ppc' = "loop")]_vars
    /\ []((ppc = "done" /\ Len(pbuf) >= frameHeaderLen)
          => pout = parse_standard_frame(WithoutSkipped))

C9_Witness ==
    /\ ppc = "done"
    /\ pin.ntlv = 2
    /\ Len(pin.tlvs) = 2
    /\ Skipped = {1}
    /\ Complete(2)
    /\ pin.tlvs[2].type = TLV_RANGE_DOPPLER_HEAT_MAP
    /\ pout.RDHM.present

FloorSamples(data) ==
    [i \in 1..(Len(data) \div 2) |-> data[2 * i - 1] + 256 * data[2 * i]]

(* C10: a frame whose only processed TLV is a complete heatmap TLV of      *)
(* declared length L, even or odd, gives RDHM = the floor(L/2) samples of  *)
(* its payload, in order.                                                  *)
C10_FloorSamples ==
    ( /\ ppc = "done"
      /\ pin.ntlv >= 1
      /\ Complete(1)
      /\ pin.tlvs[1].type = TLV_RANGE_DOPPLER_HEAT_MAP
      /\ (pin.ntlv = 1 \/ Len(pin.tlvs) = 1) )
    => pout.RDHM = Some(FloorSamples(CarriedPayload(1, pin.tlvs[1])))


(* The heatmap TLVs of a frame all of whose TLVs are complete and reached. *)
AllProcessed ==
    /\ pin.ntlv = Len(pin.tlvs)
    /\ \A k \in DOMAIN pin.tlvs : Complete(k)

HeatmapTlvs ==
    {k \in DOMAIN pin.tlvs : pin.tlvs[k].type = TLV_RANGE_DOPPLER_HEAT_MAP}

LastHeatmapTlv == CHOOSE k \in HeatmapTlvs : \A j \in HeatmapTlvs : j <= k

(* C11: a frame with several complete heatmap TLVs returns as RDHM the     *)
(* decoding of the last of them, that is the RDHM of the frame that holds  *)
(* that TLV alone; a frame with no heatmap TLV returns no RDHM.            *)
C11_LastWins ==
    (ppc = "done" /\ AllProcessed) =>
        /\ HeatmapTlvs = {} => pout.RDHM = Absent
        /\ Cardinality(HeatmapTlvs) >= 2 =>
              pout.RDHM =
                  parse_standard_frame(
                      FrameWith(1, pin.tlvs, {LastHeatmapTlv})).RDHM


(***************************************************************************)
(* radar/utils/parseTLVs.py: the legacy sub-decoders, one record per step. *)
(* A float32 field is carried as the 32-bit pattern it is unpacked from.   *)
(***************************************************************************)
MaxRecords == 2
PartialBytes == 3

pointStructSize == 16
targetSize == 112
vitalsSize == 136

(* s[:n]                                                                   *)
Prefix(s, n) == SubSeq(s, 1, Min(n, Len(s)))

(* struct.unpack(fmt, b) raises struct.error unless b has calcsize(fmt)    *)
(* bytes.                                                                  *)
Unpacks(b, size) == Len(b) = size

(* The k-th 4-byte field (from 0) of b from byte offset off, and the       *)
(* 2-byte field at byte offset off.                                        *)
Field32(b, off, k) == FromLE32(SubSeq(b, off + 4 * k + 1, off + 4 * k + 4))

Field16(b, off) == FromLE16(SubSeq(b, off + 1, off + 2))

(* x, y, z, doppler = struct.unpack('4f', ...)                             *)
PointRow(b) == [c \in 1..4 |-> Field32(b, 0, c - 1)]

(* targets[i, 0..11] = targetData[0..9], targetData[26], targetData[27]    *)
TargetRow(b) ==
    [c \in 1..12 |-> Field32(b, 0, IF c <= 10 THEN c - 1 ELSE c + 15)]

(* vitalsOutput as initialised "in case of error".                         *)
DefaultVitals ==
    [id |-> 999, rangeBin |-> 0, breathDeviation |-> 0, heartRate |-> 0,
     breathRate |-> 0, heartWaveform |-> <<>>, breathWaveform |-> <<>>]

(* vitalsData = struct.unpack('2H33f', ...): two 16-bit fields, then the   *)
(* floats from byte 4; [5:20] and [20:35] are floats 3..17 and 18..32.     *)
VitalsRecord(b) ==
    [id |-> Field16(b, 0), rangeBin |-> Field16(b, 2),
     breathDeviation |-> Field32(b, 4, 0), heartRate |-> Field32(b, 4, 1),
     breathRate |-> Field32(b, 4, 2),
     heartWaveform |-> [k \in 1..15 |-> Field32(b, 4, k + 2)],
     breathWaveform |-> [k \in 1..15 |-> Field32(b, 4, k + 17)]]

(* The keys a sub-decoder sets in outputDict: the count, the array and the *)
(* vitals record; raised is TRUE when an exception leaves the decoder.     *)
NoOutput ==
    [raised |-> FALSE, count |-> AbsentNum, rows |-> Absent,
     vitals |-> [present |-> FALSE, val |-> DefaultVitals]]

(* The bytes of the test TLV data.                                         *)
DataByte(p) == (7 * p + 3) % 128

DataBytes(n) == [p \in 1..n |-> DataByte(p)]

RecordSize(kind) ==
    IF kind = "track" THEN targetSize
    ELSE IF kind = "vitals" THEN vitalsSize ELSE pointStructSize

(* Lengths of j whole records, with and without a few bytes more.          *)
Lengths(kind) ==
    {j * RecordSize(kind) + r : j \in 0..MaxRecords, r \in {0, PartialBytes}}

DecodeKinds == {"pointCloud", "track", "vitals", "frame"}


(* The caller's array outputDict['pointCloud']: cap rows of zeros.         *)
ZeroRows(cap) == [i \in 1..cap |-> <<0, 0, 0, 0>>]

DecodeInit ==
    /\ dkind \in DecodeKinds
    /\ dlen \in Lengths(dkind)
    /\ \E n \in Lengths(dkind) :
          /\ n <= dlen
          /\ dkind = "frame" => n = dlen
          /\ dgiven = DataBytes(n)
    /\ ddata = dgiven
    /\ \E cap \in 0..MaxRecords :
          /\ dkind # "pointCloud" => cap = 0
          /\ darray = ZeroRows(cap)
    /\ di = 0
    /\ dnum = 0
    /\ dlast = Absent
    /\ dout = NoOutput
    /\ dframe = NewOutputDict
    /\ dpc = "start"
    /\ SensorIdle
    /\ ParserIdle
    /\ ConfigIdle
    /\ MainIdle
    /\ RecIdle
    /\ AuxIdle

(* parseTLVs.py 15-18.                                                     *)
PointStart ==
    /\ dpc = "start"
    /\ dkind = "pointCloud"
    /\ dnum' = dlen \div pointStructSize
    /\ di' = 0
    /\ dpc' = "loop"
    /\ UNCHANGED <<dkind, dlen, dgiven, ddata, darray, dlast, dout, dframe, notDecode>>

(* parseTLVs.py 20-31: one pass of the loop.  The row assignment fails     *)
(* with IndexError when the caller's array has no row i.                   *)
PointRecord ==
    /\ dpc = "loop"
    /\ dkind = "pointCloud"
    /\ di < dnum
    /\ LET b == Prefix(ddata, pointStructSize)
       IN  IF ~Unpacks(b, pointStructSize)
             THEN /\ dnum' = di
                  /\ dpc' = "end"
                  /\ UNCHANGED <<ddata, di, darray, dout>>
             ELSE IF di + 1 > Len(darray)
                    THEN /\ dout' = [dout EXCEPT !.raised = TRUE]
                         /\ dpc' = "raised"
                         /\ ddata' = Drop(ddata, pointStructSize)
                         /\ UNCHANGED <<di, dnum, darray>>
                    ELSE /\ darray' = [darray EXCEPT ![di + 1] = PointRow(b)]
                         /\ ddata' = Drop(ddata, pointStructSize)
                         /\ di' = di + 1
                         /\ UNCHANGED <<dnum, dout, dpc>>
    /\ UNCHANGED <<dkind, dlen, dgiven, dlast, dframe, notDecode>>

(* parseTLVs.py 32.                                                        *)
PointReturn ==
    /\ dkind = "pointCloud"
    /\ dpc = "end" \/ (dpc = "loop" /\ di >= dnum)
    /\ dout' = [dout EXCEPT !.count = SomeNum(dnum), !.rows = Some(darray)]
    /\ dpc' = "done"
    /\ UNCHANGED <<dkind, dlen, dgiven, ddata, di, dnum, darray, dlast, dframe,
                   notDecode>>

(* parseTLVs.py 189-192.  targets = np.empty(...): darray holds the rows   *)
(* written so far; the rows after them are uninitialised memory.           *)
TrackStart ==
    /\ dpc = "start"
    /\ dkind = "track"
    /\ dnum' = dlen \div targetSize
    /\ darray' = <<>>
    /\ di' = 0
    /\ dpc' = "loop"
    /\ UNCHANGED <<dkind, dlen, dgiven, ddata, dlast, dout, dframe, notDecode>>

(* parseTLVs.py 193-214: one pass of the loop.  The except clause sets the *)
(* two keys and falls through to the row assignments, which read           *)
(* targetData: unbound (UnboundLocalError) when no record was unpacked     *)
(* before, the previous record otherwise.                                  *)
TrackRecord ==
    /\ dpc = "loop"
    /\ dkind = "track"
    /\ di < dnum
    /\ LET b == Prefix(ddata, targetSize)
           ok == Unpacks(b, targetSize)
           targetData == IF ok THEN Some(b) ELSE dlast
           out == IF ok THEN dout
                  ELSE [dout EXCEPT !.count = SomeNum(0),
                                    !.rows = Some(darray)]
       IN  IF ~targetData.present
             THEN /\ dout' = [out EXCEPT !.raised = TRUE]
                  /\ dpc' = "raised"
                  /\ UNCHANGED <<ddata, di, darray, dlast>>
             ELSE /\ dout' = out
                  /\ dlast' = targetData
                  /\ darray' = Append(darray, TargetRow(targetData.val))
                  /\ ddata' = Drop(ddata, targetSize)
                  /\ di' = di + 1
                  /\ UNCHANGED dpc
    /\ UNCHANGED <<dkind, dlen, dgiven, dnum, dframe, notDecode>>

(* parseTLVs.py 215.                                                       *)
TrackReturn ==
    /\ dkind = "track"
    /\ dpc = "loop"
    /\ di >= dnum
    /\ dout' = [dout EXCEPT !.count = SomeNum(dnum), !.rows = Some(darray)]
    /\ dpc' = "done"
    /\ UNCHANGED <<dkind, dlen, dgiven, ddata, di, dnum, darray, dlast, dframe,
                   notDecode>>

(* parseTLVs.py 219-251: the except clause stores the default record and   *)
(* falls through to "vitalsOutput['id'] = vitalsData[0]" with vitalsData   *)
(* unbound (UnboundLocalError).                                            *)
VitalsDecode ==
    /\ dpc = "start"
    /\ dkind = "vitals"
    /\ LET b == Prefix(ddata, vitalsSize)
       IN  IF ~Unpacks(b, vitalsSize)
             THEN /\ dout' = [dout EXCEPT
                                !.vitals = [present |-> TRUE,
                                            val |-> DefaultVitals],
                                !.raised = TRUE]
                  /\ dpc' = "raised"
                  /\ UNCHANGED <<ddata, dlast>>
             ELSE /\ dout' = [dout EXCEPT
                                !.vitals = [present |-> TRUE,
                                            val |-> VitalsRecord(b)]]
                  /\ dlast' = Some(b)
                  /\ ddata' = Drop(ddata, vitalsSize)
                  /\ dpc' = "done"
    /\ UNCHANGED <<dkind, dlen, dgiven, di, dnum, darray, dframe, notDecode>>

(* ti_radar/parser.py on a frame whose one TLV is the same data as a       *)
(* detected-points TLV.                                                    *)
PointsFrame(data) ==
    LET tlv == MkTlv(TLV_DETECTED_POINTS, Len(data), data)
    IN  MkFrame(ParsedFrameNum, 1, tlv, frameHeaderLen + Len(tlv))

FrameDecode ==
    /\ dpc = "start"
    /\ dkind = "frame"
    /\ dframe' = parse_standard_frame(PointsFrame(ddata))
    /\ dpc' = "done"
    /\ UNCHANGED <<dkind, dlen, dgiven, ddata, di, dnum, darray, dlast, dout,
                   notDecode>>

DecodeNext ==
    \/ PointStart
    \/ PointRecord
    \/ PointReturn
    \/ TrackStart
    \/ TrackRecord
    \/ TrackReturn
    \/ VitalsDecode
    \/ FrameDecode

DecodeSpec == DecodeInit /\ [][DecodeNext]_vars


(* The records of 16 bytes of data, in order.                              *)
PointRows(data) ==
    [i \in 1..(Len(data) \div pointStructSize) |->
        PointRow(SubSeq(data, pointStructSize * (i - 1) + 1,
                        pointStructSize * i))]

(* C12: the per-frame decode of a frame with a complete detected-points    *)
(* TLV of 16*k bytes, k >= 1, returns a point cloud of the k records of    *)
(* the payload, in order.                                                  *)
C12_PlainPoints ==
    ( /\ dkind = "frame"
      /\ dpc = "done"
      /\ Len(dgiven) >= pointStructSize
      /\ Len(dgiven) % pointStructSize = 0 )
    => dframe.pointCloud = Some(PointRows(dgiven))

(* The records the data holds in full, among those the length declares.    *)
FullyUnpacked ==
    Min(dlen \div RecordSize(dkind), Len(dgiven) \div RecordSize(dkind))

(* C20: a sub-decoder given fewer bytes than the declared length requires  *)
(* (and, for the point cloud, an array with a row for every declared       *)
(* point) returns without raising and reports the number of records that   *)
(* were unpacked in full; the vitals decoder reports its default record    *)
(* when its one record is not there.                                       *)
C20_LocalDegrade ==
    ( /\ dkind \in {"pointCloud", "track", "vitals"}
      /\ dpc \in {"done", "raised"}
      /\ Len(dgiven) < dlen
      /\ dkind = "pointCloud" => Len(darray) >= dlen \div pointStructSize )
    => /\ ~dout.raised
       /\ dkind \in {"pointCloud", "track"} =>
             dout.count = SomeNum(FullyUnpacked)
       /\ (dkind = "vitals" /\ Len(dgiven) < vitalsSize) =>
             dout.vitals = [present |-> TRUE, val |-> DefaultVitals]


(***************************************************************************)
(* ti_radar/config.py: RadarConfig._parse_file.                            *)
(*                                                                         *)
(* A line of the file is what it begins with (lead: "%", "\n", or "t" for  *)
(* anything else) and what l.split() makes of it: the first token (name,   *)
(* "" when the line has no token) and the tokens after it (args).  A token *)
(* is an integer literal (form "int", num its value), a decimal literal    *)
(* (form "dec", num ten times its value) or something else (form "word").  *)
(* A float is carried as ten times its value, and a quotient of floats as  *)
(* the pair of its numerator and denominator; rounding is left out.        *)
(***************************************************************************)
MaxLines == 4

IntTok(n) == [form |-> "int", num |-> n]

DecTok(tenths) == [form |-> "dec", num |-> tenths]

WordTok == [form |-> "word", num |-> 0]

(* int(tok) and float(tok): ValueError on what they cannot read.           *)
int(tok) ==
    IF tok.form = "int" THEN [raises |-> "none", val |-> tok.num]
    ELSE [raises |-> "ValueError", val |-> 0]

float(tok) ==
    IF tok.form = "int" THEN [raises |-> "none", val |-> 10 * tok.num]
    ELSE IF tok.form = "dec" THEN [raises |-> "none", val |-> tok.num]
    ELSE [raises |-> "ValueError", val |-> 0]

(* conv(val[i]) for a line l: IndexError when val has no index i.          *)
Convert(l, i, conv) ==
    IF i > Len(l.args) THEN [raises |-> "IndexError", val |-> 0]
    ELSE IF conv = "int" THEN int(l.args[i]) ELSE float(l.args[i])

(* The values of a dictionary display, evaluated left to right: the first  *)
(* exception raised, or "none".                                            *)
RECURSIVE FirstRaise(_, _)
FirstRaise(l, items) ==
    IF items = <<>> THEN "none"
    ELSE LET r == Convert(l, Head(items)[1], Head(items)[2])
         IN  IF r.raises # "none" THEN r.raises
             ELSE FirstRaise(l, Tail(items))

channelItems == <<<<1, "int">>, <<2, "int">>>>

profileItems ==
    <<<<2, "float">>, <<3, "float">>, <<4, "float">>, <<5, "float">>,
      <<8, "float">>, <<10, "int">>, <<11, "float">>>>

frameItems == <<<<1, "int">>, <<2, "int">>, <<3, "int">>, <<5, "int">>>>

(* An update that leaves the keys already set as they are.                 *)
update_keepold(old, new) == IF old.present THEN old ELSE new

(* dict.update with every key of the dictionary: the new values replace    *)
(* the old ones.                                                           *)
update(old, new) == new

(* config.py 21-38 on one line: the three dictionaries after it, and the   *)
(* exception it raised if any.                                             *)
LineStep(l, ant, prof, frame) ==
    LET same == [antennas |-> ant, chirpProf |-> prof, frameCfg |-> frame,
                 raises |-> "none"]
    IN  IF l.name = "" THEN same
        ELSE IF l.name = "channelCfg"
          THEN IF FirstRaise(l, channelItems) # "none"
                 THEN [same EXCEPT !.raises = FirstRaise(l, channelItems)]
                 ELSE [same EXCEPT !.antennas =
                          [txAntennas |-> int(l.args[1]).val,
                           rxAntenna |-> int(l.args[2]).val]]
        ELSE IF l.name = "profileCfg"
          THEN IF FirstRaise(l, profileItems) # "none"
                 THEN [same EXCEPT !.raises = FirstRaise(l, profileItems)]
                 ELSE [same EXCEPT !.chirpProf = update(prof,
                          [present |-> TRUE,
                           startFreq |-> float(l.args[2]).val,
                           idleTime |-> float(l.args[3]).val,
                           adcStartTime |-> float(l.args[4]).val,
                           rampEndTime |-> float(l.args[5]).val,
                           freqSlope |-> float(l.args[8]).val,
                           numADCsamples |-> int(l.args[10]).val,
                           sampleRate |-> float(l.args[11]).val])]
        ELSE IF l.name = "frameCfg"
          THEN IF FirstRaise(l, frameItems) # "none"
                 THEN [same EXCEPT !.raises = FirstRaise(l, frameItems)]
                 ELSE [same EXCEPT !.frameCfg = update(frame,
                          [present |-> TRUE,
                           chirpStartInd |-> int(l.args[1]).val,
                           chirpEndInd |-> int(l.args[2]).val,
                           numLoops |-> int(l.args[3]).val,
                           periodicity |-> int(l.args[5]).val])]
        ELSE same

(* bin(n).count("1")                                                       *)
RECURSIVE PopCount(_)
PopCount(n) == IF n = 0 THEN 0 ELSE (n % 2) + PopCount(n \div 2)

Rat(n, d) == [num |-> n, den |-> d]

(* config.py 42-63: the attributes, or the exception: KeyError on a        *)
(* dictionary that no directive filled, ZeroDivisionError on a zero        *)
(* divisor.  BW is in GHz, the resolutions in m and m/s.                   *)
Calculations(ant, prof, frame) ==
    IF ~prof.present THEN [raises |-> "KeyError", val |-> NoFields]
    ELSE IF prof.sampleRate = 0
      THEN [raises |-> "ZeroDivisionError", val |-> NoFields]
    ELSE IF prof.freqSlope * prof.numADCsamples = 0
      THEN [raises |-> "ZeroDivisionError", val |-> NoFields]
    ELSE IF ~frame.present THEN [raises |-> "KeyError", val |-> NoFields]
    ELSE LET numChirps == (frame.chirpEndInd - frame.chirpStartInd + 1)
                              * frame.numLoops
             total == prof.idleTime + prof.rampEndTime
             d == prof.startFreq * total * numChirps
             slopeSamples == prof.freqSlope * prof.numADCsamples
         IN  IF d = 0 THEN [raises |-> "ZeroDivisionError", val |-> NoFields]
             ELSE [raises |-> "none",
                   val |->
                     [present |-> TRUE,
                      txAntennas |-> PopCount(ant.txAntennas),
                      rxAntennas |-> PopCount(ant.rxAntenna),
                      Nv |-> PopCount(ant.txAntennas) * PopCount(ant.rxAntenna),
                      BW |-> Rat(slopeSamples, prof.sampleRate),
                      rangeRes |-> Rat(3 * prof.sampleRate, 20 * slopeSamples),
                      rangeMax |-> Rat(3 * prof.sampleRate
                                         * (prof.numADCsamples - 1),
                                       20 * slopeSamples),
                      numChirps |-> numChirps,
                      dopRes |-> Rat(15000000, d),
                      numLoops |-> frame.numLoops,
                      dopMax |-> Rat(15000000 * frame.numLoops, 2 * d),
                      T |-> frame.periodicity,
                      ADCsamples |-> prof.numADCsamples]]


(* The lines of the test files.                                            *)
Line(lead, name, args) == [lead |-> lead, name |-> name, args |-> args]

Ints(ns) == [i \in DOMAIN ns |-> IntTok(ns[i])]

CommentLine == Line("%", "%", <<>>)

BlankLine == Line("\n", "", <<>>)

OtherLine == Line("t", "sensorStop", <<>>)

ChannelLines ==
    {Line("t", "channelCfg", Ints(<<15, 7, 0>>)),
     Line("t", "channelCfg", Ints(<<5, 3, 0>>))}

(* profileCfg 0 77 7 3 39.5 0 0 100 1 64 2000, and a second profile.       *)
ProfileA ==
    Line("t", "profileCfg",
         [Ints(<<0, 77, 7, 3, 0, 0, 0, 100, 1, 64, 2000>>)
            EXCEPT ![5] = DecTok(395)])

ProfileB ==
    Line("t", "profileCfg", Ints(<<0, 60, 10, 3, 40, 0, 0, 50, 1, 32, 1000>>))

(* numADCsamples is not a number.                                          *)
ProfileBad == [ProfileA EXCEPT !.args[10] = WordTok]

FrameLines ==
    {Line("t", "frameCfg", Ints(<<0, 1, 16, 0, 100>>)),
     Line("t", "frameCfg", Ints(<<0, 0, 8, 0, 50>>))}

(* frameCfg without its periodicity.                                       *)
FrameShort == Line("t", "frameCfg", Ints(<<0, 1, 16>>))

TextLines ==
    {CommentLine, BlankLine, OtherLine, ProfileA, ProfileB, ProfileBad,
     FrameShort} \cup ChannelLines \cup FrameLines

RECURSIVE Texts(_)
Texts(n) ==
    IF n = 0 THEN {<<>>}
    ELSE LET S == Texts(n - 1)
         IN  S \cup {Append(t, l) : t \in {u \in S : Len(u) = n - 1},
                                    l \in TextLines}

(* config.py 14: "not l.startswith('%') and not l.startswith('\n')"        *)
Kept(l) == l.lead # "%" /\ l.lead # "\n"

FilterLines(text) == SelectSeq(text, Kept)

ConfigInit ==
    /\ ctext \in Texts(MaxLines)
    /\ lines = <<>>
    /\ antennas = [txAntennas |-> 0, rxAntenna |-> 0]
    /\ chirpProf = EmptyDict
    /\ frameCfg = EmptyDict
    /\ cfields = NoFields
    /\ cerr = "none"
    /\ cpc = "open"
    /\ SensorIdle
    /\ ParserIdle
    /\ DecodeIdle
    /\ MainIdle
    /\ RecIdle
    /\ AuxIdle

(* config.py 13-18.                                                        *)
ConfigOpen ==
    /\ cpc = "open"
    /\ lines' = FilterLines(ctext)
    /\ antennas' = [txAntennas |-> 0, rxAntenna |-> 0]
    /\ chirpProf' = EmptyDict
    /\ frameCfg' = EmptyDict
    /\ cpc' = "scan"
    /\ UNCHANGED <<ctext, cfields, cerr, notConfig>>

(* config.py 21-38: one pass of the loop.                                  *)
ConfigLine ==
    /\ cpc = "scan"
    /\ lines # <<>>
    /\ LET r == LineStep(Head(lines), antennas, chirpProf, frameCfg)
       IN  IF r.raises # "none"
             THEN /\ cerr' = r.raises
                  /\ cpc' = "failed"
                  /\ UNCHANGED <<lines, antennas, chirpProf, frameCfg>>
             ELSE /\ antennas' = r.antennas
                  /\ chirpProf' = r.chirpProf
                  /\ frameCfg' = r.frameCfg
                  /\ lines' = Tail(lines)
                  /\ UNCHANGED <<cerr, cpc>>
    /\ UNCHANGED <<ctext, cfields, notConfig>>

(* config.py 42-63.                                                        *)
ConfigCalc ==
    /\ cpc = "scan"
    /\ lines = <<>>
    /\ LET r == Calculations(antennas, chirpProf, frameCfg)
       IN  IF r.raises # "none"
             THEN /\ cerr' = r.raises
                  /\ cpc' = "failed"
                  /\ UNCHANGED cfields
             ELSE /\ cfields' = r.val
                  /\ cpc' = "done"
                  /\ UNCHANGED cerr
    /\ UNCHANGED <<ctext, lines, antennas, chirpProf, frameCfg, notConfig>>

ConfigNext == ConfigOpen \/ ConfigLine \/ ConfigCalc

ConfigSpec == ConfigInit /\ [][ConfigNext]_vars

(* RadarConfig(text) as a function: the exception, or the attributes.      *)
RECURSIVE ScanLines(_, _, _, _)
ScanLines(ls, ant, prof, frame) ==
    IF ls = <<>>
      THEN [raises |-> "none", antennas |-> ant, chirpProf |-> prof,
            frameCfg |-> frame]
      ELSE LET r == LineStep(Head(ls), ant, prof, frame)
           IN  IF r.raises # "none" THEN r
               ELSE ScanLines(Tail(ls), r.antennas, r.chirpProf, r.frameCfg)

RadarConfig(text) ==
    LET s == ScanLines(FilterLines(text),
                       [txAntennas |-> 0, rxAntenna |-> 0],
                       EmptyDict, EmptyDict)
        c == Calculations(s.antennas, s.chirpProf, s.frameCfg)
    IN  IF s.raises # "none"
          THEN [raises |-> s.raises, chirpProf |-> EmptyDict,
                frameCfg |-> EmptyDict, fields |-> NoFields]
        ELSE IF c.raises # "none"
          THEN [raises |-> c.raises, chirpProf |-> EmptyDict,
                frameCfg |-> EmptyDict, fields |-> NoFields]
        ELSE [raises |-> "none", chirpProf |-> s.chirpProf,
              frameCfg |-> s.frameCfg, fields |-> c.val]


Required == {"channelCfg", "profileCfg", "frameCfg"}

(* The positions of the lines of text that are directive d.                *)
Occurrences(text, d) ==
    {i \in DOMAIN text : Kept(text[i]) /\ text[i].name = d}

(* C13: a text that lacks one of channelCfg, profileCfg, frameCfg and has  *)
(* the other two is rejected: the construction ends with an error.         *)
C13_MissingDirective ==
    \A d \in Required :
        ( /\ cpc \in {"done", "failed"}
          /\ Occurrences(ctext, d) = {}
          /\ \A e \in Required \ {d} : Occurrences(ctext, e) # {} )
        => cpc = "failed"

(* The lines of text without the occurrences of a required directive that  *)
(* a later occurrence of the same directive follows.                       *)
Superseded(text) ==
    {i \in DOMAIN text :
        \E d \in Required :
            /\ i \in Occurrences(text, d)
            /\ \E j \in Occurrences(text, d) : j > i}

RECURSIVE Without(_, _, _)
Without(text, drop, i) ==
    IF i > Len(text) THEN <<>>
    ELSE (IF i \in drop THEN <<>> ELSE <<text[i]>>)
         \o Without(text, drop, i + 1)

KeepLast(text) == Without(text, Superseded(text), 1)

(* C14: a RadarConfig built from a text in which a required directive      *)
(* occurs more than once has the attributes of the RadarConfig built from  *)
(* the text that keeps only the last occurrence of each directive.         *)
C14_LastWins ==
    (cpc = "done" /\ Superseded(ctext) # {}) =>
        LET r == RadarConfig(KeepLast(ctext))
        IN  /\ r.raises = "none"
            /\ r.fields = cfields
            /\ r.chirpProf = chirpProf
            /\ r.frameCfg = frameCfg

C14_Witness ==
    /\ cpc = "done"
    /\ Len(ctext) = 4
    /\ ctext[1] = ProfileA
    /\ ctext[2] = CommentLine
    /\ ctext[3] = ProfileB
    /\ ctext[4].name = "frameCfg"
    /\ cfields.ADCsamples = 32


(***************************************************************************)
(* main.py: process_radar_frame.                                           *)
(*                                                                         *)
(* A matrix of floats is carried as integer numerators m over one common   *)
(* denominator den; float rounding is left out.  The samples of the test   *)
(* heatmaps are 0 and powers of ten, on which 20*log10(|x| + 1e-6) is an   *)
(* integer to within 1e-5.                                                 *)
(***************************************************************************)
MaxSignals == 3
MaxRange == 2
MaxDoppler == 4
NumPatterns == 3

AlphaNum == 49
AlphaDen == 50
DB_MIN == -80
DB_MAX == 0
DB_FLOOR == -120

(* rd_matrix.reshape(ADCsamples, numLoops): ValueError unless the sizes    *)
(* agree, else the rows in order.                                          *)
reshape(flat, rows, cols) ==
    IF Len(flat) # rows * cols
      THEN [raises |-> TRUE, val |-> <<>>]
      ELSE [raises |-> FALSE,
            val |-> [i \in 1..rows |->
                       [j \in 1..cols |-> flat[(i - 1) * cols + j]]]]

(* A shift that moves one place too far.                                   *)
fftshift_offbyone(row) ==
    LET n == Len(row)
    IN  [j \in 1..n |-> row[((j - 1 - (n \div 2 + 1) + 2 * n) % n) + 1]]

(* np.fft.fftshift along a row: a roll by floor(n/2), the element at       *)
(* position i moves to position (i + floor(n/2)) mod n.                    *)
fftshift(row) ==
    LET n == Len(row)
    IN  [j \in 1..n |-> row[((j - 1 - (n \div 2) + n) % n) + 1]]

RECURSIVE Log10(_)
Log10(x) == IF x < 10 THEN 0 ELSE 1 + Log10(x \div 10)

(* 20 * np.log10(np.abs(x) + 1e-6) on x = 0 and on powers of ten.          *)
dB(x) == IF x = 0 THEN DB_FLOOR ELSE 20 * Log10(x)

(* CLUTTER_ALPHA * background + (1.0 - CLUTTER_ALPHA) * rd_db, with the    *)
(* weight of the new frame doubled.                                        *)
Blend_heavy(bg, rd_db) ==
    [present |-> TRUE, den |-> AlphaDen * bg.den,
     m |-> [i \in DOMAIN rd_db |->
              [j \in DOMAIN rd_db[i] |->
                  AlphaNum * bg.m[i][j]
                    + 2 * (AlphaDen - AlphaNum) * rd_db[i][j] * bg.den]]]

(* The same with the two weights exchanged.                                *)
Blend_swapped(bg, rd_db) ==
    [present |-> TRUE, den |-> AlphaDen * bg.den,
     m |-> [i \in DOMAIN rd_db |->
              [j \in DOMAIN rd_db[i] |->
                  (AlphaDen - AlphaNum) * bg.m[i][j]
                    + AlphaNum * rd_db[i][j] * bg.den]]]

(* main.py 72: CLUTTER_ALPHA * background + (1.0 - CLUTTER_ALPHA) * rd_db  *)
Blend(bg, rd_db) ==
    [present |-> TRUE, den |-> AlphaDen * bg.den,
     m |-> [i \in DOMAIN rd_db |->
              [j \in DOMAIN rd_db[i] |->
                  AlphaNum * bg.m[i][j]
                    + (AlphaDen - AlphaNum) * rd_db[i][j] * bg.den]]]

(* main.py 50-78: the pair returned, or the exception.                     *)
process_radar_frame(raw_data, bg, minbin, cfg) ==
    IF ~raw_data.hasRDHM
      THEN [raises |-> FALSE, processed |-> NoMatrix, background |-> bg]
      ELSE LET r == reshape(raw_data.RDHM, cfg.ADCsamples, cfg.numLoops)
           IN  IF r.raises
                 THEN [raises |-> TRUE, processed |-> NoMatrix,
                       background |-> bg]
                 ELSE LET rd_db == [i \in DOMAIN r.val |->
                                      LET row == fftshift(r.val[i])
                                      IN  [j \in DOMAIN row |-> dB(row[j])]]
                          newbg == IF ~bg.present
                                     THEN [present |-> TRUE, den |-> 1,
                                           m |-> rd_db]
                                     ELSE Blend(bg, rd_db)
                      IN  [raises |-> FALSE,
                           processed |->
                             [present |-> TRUE, den |-> newbg.den,
                              m |-> [i \in DOMAIN rd_db |->
                                       [j \in DOMAIN rd_db[i] |->
                                          IF i <= minbin
                                            THEN DB_MIN * newbg.den
                                            ELSE rd_db[i][j] * newbg.den
                                                   - newbg.m[i][j]]]],
                           background |-> newbg]


(* The test heatmaps: n samples that are 0, 1, 10 or 100, in an order that *)
(* depends on the pattern p.                                               *)
Pow10(k) == IF k = 0 THEN 0 ELSE IF k = 1 THEN 1 ELSE IF k = 2 THEN 10 ELSE 100

Pattern(p, n) == [i \in 1..n |-> Pow10((i * (p + 1)) % 4)]

NoHeatmap == [hasRDHM |-> FALSE, RDHM |-> <<>>]

Heatmap(flat) == [hasRDHM |-> TRUE, RDHM |-> flat]

(* What a call may be given: no RDHM key, a heatmap of the configured      *)
(* size, a heatmap with one sample too many.                               *)
SignalChoices(cfg) ==
    {NoHeatmap, Heatmap(Pattern(0, cfg.ADCsamples * cfg.numLoops + 1))}
    \cup {Heatmap(Pattern(p, cfg.ADCsamples * cfg.numLoops)) :
            p \in 0..(NumPatterns - 1)}

RECURSIVE SignalSeqs(_, _)
SignalSeqs(cfg, n) ==
    IF n = 0 THEN {<<>>}
    ELSE LET S == SignalSeqs(cfg, n - 1)
         IN  S \cup {Append(s, x) : s \in {u \in S : Len(u) = n - 1},
                                    x \in SignalChoices(cfg)}

ProcessInit ==
    /\ cfg_params \in [ADCsamples : 1..MaxRange, numLoops : 1..MaxDoppler]
    /\ min_range_bin \in 1..MaxRange
    /\ raw_signals \in SignalSeqs(cfg_params, MaxSignals)
    /\ ncalls = 0
    /\ background = NoMatrix
    /\ processed_data = NoMatrix
    /\ praised = FALSE
    /\ SensorIdle
    /\ ParserIdle
    /\ DecodeIdle
    /\ ConfigIdle
    /\ RecIdle
    /\ AuxIdle

NextCall ==
    process_radar_frame(raw_signals[ncalls + 1], background, min_range_bin,
                        cfg_params)

(* main.py 55-56 and 138-139: no RDHM key: None, background as it was.     *)
ProcessSkip ==
    /\ ~praised
    /\ ncalls < Len(raw_signals)
    /\ ~raw_signals[ncalls + 1].hasRDHM
    /\ processed_data' = NextCall.processed
    /\ background' = NextCall.background
    /\ ncalls' = ncalls + 1
    /\ UNCHANGED <<raw_signals, cfg_params, min_range_bin, praised, notMain>>

(* main.py 58-78 and 134-136: a heatmap frame.                             *)
ProcessFrame ==
    /\ ~praised
    /\ ncalls < Len(raw_signals)
    /\ raw_signals[ncalls + 1].hasRDHM
    /\ ~NextCall.raises
    /\ processed_data' = NextCall.processed
    /\ background' = NextCall.background
    /\ ncalls' = ncalls + 1
    /\ UNCHANGED <<raw_signals, cfg_params, min_range_bin, praised, notMain>>

(* main.py 60: reshape raises; nothing is returned.                        *)
ProcessRaise ==
    /\ ~praised
    /\ ncalls < Len(raw_signals)
    /\ NextCall.raises
    /\ praised' = TRUE
    /\ ncalls' = ncalls + 1
    /\ UNCHANGED <<raw_signals, cfg_params, min_range_bin, background,
                   processed_data, notMain>>

ProcessNext == ProcessSkip \/ ProcessFrame \/ ProcessRaise

ProcessSpec == ProcessInit /\ [][ProcessNext]_vars


(* The calls made so far that were given a heatmap and returned.           *)
HeatCalls ==
    {k \in 1..ncalls :
        /\ raw_signals[k].hasRDHM
        /\ Len(raw_signals[k].RDHM) = cfg_params.ADCsamples * cfg_params.numLoops}

(* The k-th smallest element of a set of numbers.                          *)
RECURSIVE Nth(_, _)
Nth(S, k) ==
    LET lo == CHOOSE x \in S : \A y \in S : x <= y
    IN  IF k = 1 THEN lo ELSE Nth(S \ {lo}, k - 1)

(* The i-th row of the heatmap of call k, as the sensor sent it.           *)
RowOf(k, i) ==
    [j \in 1..cfg_params.numLoops |->
        raw_signals[k].RDHM[(i - 1) * cfg_params.numLoops + j]]

(* C15: on every row of even length of a heatmap given to                  *)
(* process_radar_frame, the FFT-shift applied twice gives the row back.    *)
C15_ShiftTwice ==
    \A k \in HeatCalls :
        cfg_params.numLoops % 2 = 0 =>
            \A i \in 1..cfg_params.ADCsamples :
                fftshift(fftshift(RowOf(k, i))) = RowOf(k, i)

C15_Witness ==
    /\ cfg_params.numLoops = 4
    /\ ncalls \in HeatCalls
    /\ processed_data.present
    /\ fftshift(RowOf(ncalls, 1)) # RowOf(ncalls, 1)
    /\ fftshift(RowOf(ncalls, 1))[3] = RowOf(ncalls, 1)[1]

(* The column a shifted row takes its j-th element from.                   *)
ShiftSource(j, n) == IF j > n \div 2 THEN j - n \div 2 ELSE j + n - n \div 2

(* The dB matrix of the heatmap of call k, cell by cell.                   *)
DbCell(k, i, j) ==
    LET x == RowOf(k, i)[ShiftSource(j, cfg_params.numLoops)]
    IN  IF x = 0 THEN DB_FLOOR ELSE 20 * Log10(x)

RECURSIVE Power(_, _)
Power(b, e) == IF e = 0 THEN 1 ELSE b * Power(b, e - 1)

(* AlphaDen^(n-1) times the background after the n heatmap calls of H,     *)
(* from the whole history: alpha^(n-1) dB_1 + sum over k = 2..n of         *)
(* (1 - alpha) alpha^(n-k) dB_k.                                           *)
RECURSIVE HistorySum(_, _, _, _)
HistorySum(H, i, j, k) ==
    LET n == Cardinality(H)
    IN  IF k > n THEN 0
        ELSE (IF k = 1
                THEN Power(AlphaNum, n - 1)
                ELSE (AlphaDen - AlphaNum) * Power(AlphaNum, n - k)
                       * Power(AlphaDen, k - 2))
               * DbCell(Nth(H, k), i, j)
             + HistorySum(H, i, j, k + 1)

Cells == (1..cfg_params.ADCsamples) \X (1..cfg_params.numLoops)

(* C16: before any heatmap frame the background is None; after the first   *)
(* it is that frame's dB matrix and after each later one                   *)
(* alpha * previous + (1 - alpha) * dB; the matrix returned for a heatmap  *)
(* frame is dB minus the background as just updated, with the rows under   *)
(* min_range_bin then set to DB_MIN.                                       *)
C16_BackgroundUpdate ==
    LET n == Cardinality(HeatCalls)
    IN  /\ n = 0 => ~background.present
        /\ n >= 1 =>
              /\ background.present
              /\ background.den = Power(AlphaDen, n - 1)
              /\ \A c \in Cells :
                    background.m[c[1]][c[2]] = HistorySum(HeatCalls, c[1], c[2], 1)
        /\ (ncalls \in HeatCalls /\ ~praised) =>
              /\ processed_data.present
              /\ processed_data.den = background.den
              /\ \A c \in Cells :
                    processed_data.m[c[1]][c[2]] =
                        IF c[1] <= min_range_bin
                          THEN DB_MIN * background.den
                          ELSE DbCell(ncalls, c[1], c[2]) * background.den
                                 - background.m[c[1]][c[2]]

C16_Witness ==
    /\ ncalls = 3
    /\ HeatCalls = {1, 2, 3}
    /\ raw_signals[1] # raw_signals[2]
    /\ raw_signals[2] # raw_signals[3]
    /\ cfg_params = [ADCsamples |-> 2, numLoops |-> 4]
    /\ min_range_bin = 1
    /\ background.den = 2500
    /\ \E j \in 1..4 : processed_data.m[2][j] # 0

(* Every heatmap call so far was given the same heatmap.                   *)
SameHeatmap ==
    /\ HeatCalls # {}
    /\ \A k, l \in HeatCalls : raw_signals[k] = raw_signals[l]
    /\ ncalls \in HeatCalls
    /\ ~praised

(* C17 as claimed: the same heatmap fed again and again makes the matrix   *)
(* returned all-zero.                                                      *)
C17_AllZero ==
    SameHeatmap => \A c \in Cells : processed_data.m[c[1]][c[2]] = 0

(* C17 amended: the same heatmap fed again and again, from the first call  *)
(* on: the background is that heatmap's dB matrix and the matrix returned  *)
(* is zero in every row that is not range-gated; the gated rows hold       *)
(* DB_MIN.                                                                 *)
C17_Converges ==
    SameHeatmap =>
        \A c \in Cells :
            /\ background.m[c[1]][c[2]]
                  = DbCell(ncalls, c[1], c[2]) * background.den
            /\ processed_data.m[c[1]][c[2]] =
                  IF c[1] <= min_range_bin THEN DB_MIN * processed_data.den
                  ELSE 0

C17_Witness ==
    /\ SameHeatmap
    /\ HeatCalls = {1, 2, 3}
    /\ cfg_params = [ADCsamples |-> 2, numLoops |-> 4]
    /\ min_range_bin = 1
    /\ background.den = 2500
    /\ \A j \in 1..4 : processed_data.m[2][j] = 0
    /\ \E j \in 1..4 : background.m[2][j] # background.m[2][1]


(* The next read of n bytes comes back with fewer than n.                  *)
ShortRead(p, n) == ReadCount(stream, p, n) < n

(* The step ended the call with None: nothing was handed to the parser.    *)
ReturnedNone ==
    /\ Len(results') = Len(results) + 1
    /\ results'[Len(results')].raw = <<>>
    /\ results'[Len(results')].frame = NoneFrame

(* C19: after the magic word, a version or length read of fewer than 4     *)
(* bytes, or a payload read of zero bytes, ends the call with None; a      *)
(* short payload read that is not empty is added to the payload and the    *)
(* loop goes on; whatever is returned is None or the whole frame, with     *)
(* exactly length - 16 bytes after its first 16.                           *)
C19_CompleteOrNothing ==
    /\ [][(/\ pc = "header"
           /\ is_running' = is_running
           /\ ShortRead(pos, 4) \/ ShortRead(ReadEnd(stream, pos, 4), 4))
          => ReturnedNone]_vars
    /\ [][(/\ pc = "payload"
           /\ bytes_to_read > 0
           /\ is_running' = is_running
           /\ ReadCount(stream, pos, bytes_to_read) = 0)
          => ReturnedNone]_vars
    /\ [][(/\ pc = "payload"
           /\ bytes_to_read > 0
           /\ is_running' = is_running
           /\ ReadCount(stream, pos, bytes_to_read) > 0)
          => (/\ results' = results
              /\ pc' = "payload"
              /\ payload' = payload \o ReadData(stream, pos, bytes_to_read)
              /\ bytes_to_read' =
                    bytes_to_read - ReadCount(stream, pos, bytes_to_read))]_vars
    /\ [](\A i \in DOMAIN results :
            /\ results[i].raw \in {<<>>, SplitFrame.bytes}
            /\ results[i].raw # <<>> =>
                  Len(results[i].raw) - 16
                      = DeclaredLength(results[i].raw) - 16
            /\ results[i].raw = <<>> => results[i].frame = NoneFrame)

(* The frame came back whole from a payload read in three pieces.          *)
C19_Witness ==
    /\ Len(results) = 1
    /\ results[1].raw = SplitFrame.bytes
    /\ results[1].to - results[1].from = Len(SplitFrame.bytes) + 2
    /\ stream[20] = GAP
    /\ stream[30] = GAP


(***************************************************************************)
(* radar.py: RadarWorker.run with the recording toggle.  The worker        *)
(* thread takes the frames one by one; the GUI thread may call             *)
(* start_recording, stop_recording and stop between any two of its steps.  *)
(***************************************************************************)
MaxDelivered == 3

size_len(raw_rdhm) == [raises |-> FALSE, val |-> Len(raw_rdhm)]

(* raw_rdhm.size: frame["RDHM"] is the list made by .tolist() in the       *)
(* parser, and a list has no attribute size: AttributeError.               *)
size(raw_rdhm) == [raises |-> TRUE, val |-> 0]

(* rd_matrix[:max_bin, :]                                                  *)
Crop(rd_matrix, max_bin) ==
    [i \in 1..Min(max_bin, Len(rd_matrix)) |-> rd_matrix[i]]

(* 20 * np.log10(np.abs(np.fft.fftshift(m, axes=1)) + 1e-6)                *)
ui_matrix(rd_matrix_cropped) ==
    [i \in DOMAIN rd_matrix_cropped |->
        [j \in DOMAIN rd_matrix_cropped[i] |->
            dB(fftshift(rd_matrix_cropped[i])[j])]]

(* What one pass of the loop body reads and writes.                        *)
WorkerState(rec, rdhm, ts, em, errs) ==
    [is_recording |-> rec, recorded_session_rdhm |-> rdhm,
     recorded_session_timestamps |-> ts, emitted |-> em, errors |-> errs]

(* A loop body that records before it looks at the size and then goes on   *)
(* to the next frame.                                                      *)
HandleFrame_recordfirst(frame, now, b, w) ==
    IF frame.none \/ ~frame.d.RDHM.present
      THEN w
      ELSE IF w.is_recording
        THEN [w EXCEPT !.recorded_session_rdhm = Append(@, frame.d.RDHM.val),
                       !.recorded_session_timestamps = Append(@, now)]
        ELSE [w EXCEPT !.errors = @ + 1]

(* radar.py 75-100, the loop body after get_next_frame.  np.copy gives the *)
(* recorded matrix its own storage, so the entry is the value cropped at   *)
(* that moment; time.time() is the reading now of a clock.                 *)
HandleFrame(frame, now, b, w) ==
    IF frame.none \/ ~frame.d.RDHM.present
      THEN w
      ELSE LET raw_rdhm == frame.d.RDHM.val
               sz == size(raw_rdhm)
           IN  IF sz.raises
                 THEN [w EXCEPT !.errors = @ + 1]
                 ELSE IF sz.val # b.num_range_bins * b.num_vel_bins
                   THEN w
                   ELSE LET rd_matrix ==
                                reshape(raw_rdhm, b.num_range_bins,
                                        b.num_vel_bins).val
                            rd_matrix_cropped == Crop(rd_matrix, b.max_bin)
                            r == IF w.is_recording
                                   THEN [w EXCEPT
                                           !.recorded_session_rdhm =
                                               Append(@, rd_matrix_cropped),
                                           !.recorded_session_timestamps =
                                               Append(@, now)]
                                   ELSE w
                        IN  [r EXCEPT !.emitted =
                                Append(@, ui_matrix(rd_matrix_cropped))]

(* The frames get_next_frame can hand over: None, a frame without heatmap, *)
(* and frames whose heatmap has two and four samples.                      *)
HeatFrame(samples) ==
    GoodFrame(1, 1, MkTlv(TLV_RANGE_DOPPLER_HEAT_MAP, Len(samples), samples))

DeliveredChoices ==
    {get_next_frame(<<>>),
     get_next_frame(GoodFrame(7, 0, <<>>).bytes),
     get_next_frame(HeatFrame(<<10, 0, 100, 0>>).bytes),
     get_next_frame(HeatFrame(<<1, 0, 10, 0, 100, 0, 0, 0>>).bytes)}

RECURSIVE DeliveredSeqs(_)
DeliveredSeqs(n) ==
    IF n = 0 THEN {<<>>}
    ELSE LET S == DeliveredSeqs(n - 1)
         IN  S \cup {Append(s, f) : s \in {t \in S : Len(t) = n - 1},
                                     f \in DeliveredChoices}

(* radar.py 51-69: the worker as constructed, for configurations with two  *)
(* Doppler bins and one or two range bins, max_bin at or below the latter. *)
WorkerBins ==
    {[num_range_bins |-> r, num_vel_bins |-> 2, max_bin |-> m] :
        r \in 1..2, m \in 1..2} \ {[num_range_bins |-> 1, num_vel_bins |-> 2,
                                    max_bin |-> 2]}

RecInit ==
    /\ delivered \in DeliveredSeqs(MaxDelivered)
    /\ rnext = 0
    /\ bins \in WorkerBins
    /\ is_recording = FALSE
    /\ recorded_session_rdhm = <<>>
    /\ recorded_session_timestamps = <<>>
    /\ emitted = <<>>
    /\ SensorIdle
    /\ ParserIdle
    /\ DecodeIdle
    /\ ConfigIdle
    /\ MainIdle
    /\ AuxIdle

(* radar.py 72-74: the loop test and the next frame.                       *)
RunGet ==
    /\ wpc = "top"
    /\ is_running
    /\ rnext < Len(delivered)
    /\ rnext' = rnext + 1
    /\ wpc' = "got"
    /\ UNCHANGED <<delivered, bins, is_recording, recorded_session_rdhm,
                   recorded_session_timestamps, emitted, is_running,
                   workerErrors, notRec>>

(* radar.py 75-100: the rest of the loop body.                             *)
RunHandle ==
    /\ wpc = "got"
    /\ LET w == HandleFrame(delivered[rnext], rnext, bins,
                            WorkerState(is_recording, recorded_session_rdhm,
                                        recorded_session_timestamps, emitted,
                                        workerErrors))
       IN  /\ recorded_session_rdhm' = w.recorded_session_rdhm
           /\ recorded_session_timestamps' = w.recorded_session_timestamps
           /\ emitted' = w.emitted
           /\ workerErrors' = w.errors
    /\ wpc' = "top"
    /\ UNCHANGED <<delivered, rnext, bins, is_recording, is_running, notRec>>

(* radar.py 103-106                                                        *)
start_recording ==
    /\ wpc # "exited"
    /\ recorded_session_rdhm' = <<>>
    /\ recorded_session_timestamps' = <<>>
    /\ is_recording' = TRUE
    /\ UNCHANGED <<delivered, rnext, bins, emitted, wpc, is_running,
                   workerErrors, notRec>>

(* radar.py 108-110                                                        *)
stop_recording ==
    /\ wpc # "exited"
    /\ is_recording' = FALSE
    /\ UNCHANGED <<delivered, rnext, bins, recorded_session_rdhm,
                   recorded_session_timestamps, emitted, wpc, is_running,
                   workerErrors, notRec>>

RecNext ==
    \/ RunGet
    \/ RunHandle
    \/ start_recording
    \/ stop_recording
    \/ Stop
    \/ WorkerExit

RecSpec == RecInit /\ [][RecNext]_vars

(* The frames whose loop body has run.                                     *)
Handled == IF wpc = "got" THEN rnext - 1 ELSE rnext

(* The worker run on the first n frames with recording never enabled.      *)
RECURSIVE NeverRecording(_)
NeverRecording(n) ==
    IF n = 0 THEN WorkerState(FALSE, <<>>, <<>>, <<>>, 0)
    ELSE HandleFrame(delivered[n], n, bins, NeverRecording(n - 1))

(* The rows of the frame at position k, cropped as the worker crops them.  *)
CroppedFrame(k) ==
    Crop(reshape(delivered[k].d.RDHM.val, bins.num_range_bins,
                 bins.num_vel_bins).val, bins.max_bin)

MaxShown == 3
COLOR_SCALE_UPDATE_RATE == 10
MinValid == 100

(* The groups of the sensor, the parser, the sub-decoders, RadarConfig and *)
(* process_radar_frame idle: what a RadarWorker of its own starts from.    *)
CoreIdleButRec ==
    /\ SensorIdle
    /\ ParserIdle
    /\ DecodeIdle
    /\ ConfigIdle
    /\ MainIdle

CoreIdle ==
    /\ SensorIdle
    /\ ParserIdle
    /\ DecodeIdle
    /\ ConfigIdle
    /\ MainIdle
    /\ RecIdle

(* len(data) for a matrix given by its runs.                               *)
RECURSIVE NumCells(_)
NumCells(runs) ==
    IF runs = <<>> THEN 0 ELSE Head(runs).n + NumCells(Tail(runs))


(* The k-th cell in ascending order, k from 1.                             *)
RECURSIVE CellAt(_, _)
CellAt(runs, k) ==
    IF k <= Head(runs).n THEN Head(runs).v
    ELSE CellAt(Tail(runs), k - Head(runs).n)

(* data[data > DB_MIN + 10]                                                *)
valid_data(data) == SelectSeq(data, LAMBDA r : r.v > DB_MIN + 10)

(* np.percentile(a, q), linear interpolation between the two cells around  *)
(* position q/100 * (len - 1) of the sorted cells; in hundredths.          *)
percentile(a, q) ==
    LET n == NumCells(a)
        at == q * (n - 1)
        lo == at \div 100
        frac == at % 100
    IN  IF frac = 0 THEN 100 * CellAt(a, lo + 1)
        ELSE (100 - frac) * CellAt(a, lo + 1) + frac * CellAt(a, lo + 2)

(* main.py 80-93.  vmin and vmax are locals assigned only inside the if:   *)
(* on a frame_count that is no multiple of update_rate the return          *)
(* statement reads unbound locals, UnboundLocalError.  The bounds of the   *)
(* caller ("last") are not in the function's reach.                        *)
adaptive_color_scale(data, fc, update_rate, last) ==
    IF fc % update_rate = 0
      THEN LET valid == valid_data(data)
           IN  IF NumCells(valid) > MinValid
                 THEN [raises |-> FALSE, vmin |-> percentile(valid, 5),
                       vmax |-> percentile(valid, 95)]
                 ELSE [raises |-> FALSE, vmin |-> 100 * DB_MIN,
                       vmax |-> 100 * DB_MAX]
      ELSE [raises |-> TRUE, vmin |-> 0, vmax |-> 0]

(* What process_radar_frame hands to the loop: None, a matrix with few     *)
(* cells above the noise threshold, and matrices with more than 100.       *)
NoData == [none |-> TRUE, runs |-> <<>>]
Data(runs) == [none |-> FALSE, runs |-> runs]

ShownChoices ==
    {NoData,
     Data(<<[v |-> DB_MIN, n |-> 28], [v |-> 0, n |-> 100]>>),
     Data(<<[v |-> DB_MIN, n |-> 20], [v |-> -10, n |-> 150]>>),
     Data(<<[v |-> -60, n |-> 6], [v |-> 0, n |-> 96]>>)}

RECURSIVE ShownSeqs(_)
ShownSeqs(n) ==
    IF n = 0 THEN {<<>>}
    ELSE LET S == ShownSeqs(n - 1)
         IN  S \cup {Append(s, d) : s \in {t \in S : Len(t) = n - 1},
                                     d \in ShownChoices}

(* main.py 105-120: the mesh is created with vmin=DB_MIN, vmax=DB_MAX and  *)
(* frame_count = 0.                                                        *)
DisplayInit ==
    /\ shown \in ShownSeqs(MaxShown)
    /\ miter = 0
    /\ frame_count = 0
    /\ clim = [vmin |-> 100 * DB_MIN, vmax |-> 100 * DB_MAX]
    /\ displayed = <<>>
    /\ merror = FALSE
    /\ CoreIdle
    /\ OthersIdle("display")

(* main.py 133-139: processed_data is None, continue.                      *)
LoopSkip ==
    /\ ~merror
    /\ miter < Len(shown)
    /\ shown[miter + 1].none
    /\ miter' = miter + 1
    /\ UNCHANGED <<shown, frame_count, clim, displayed, merror, notDisplay>>

(* main.py 141-154: set_array, the colour scale, set_clim, frame_count.    *)
LoopShow ==
    /\ ~merror
    /\ miter < Len(shown)
    /\ ~shown[miter + 1].none
    /\ LET r == adaptive_color_scale(shown[miter + 1].runs, frame_count,
                                     COLOR_SCALE_UPDATE_RATE, clim)
       IN  /\ ~r.raises
           /\ clim' = [vmin |-> r.vmin, vmax |-> r.vmax]
    /\ displayed' = Append(displayed, shown[miter + 1].runs)
    /\ frame_count' = frame_count + 1
    /\ miter' = miter + 1
    /\ UNCHANGED <<shown, merror, notDisplay>>

(* main.py 142-145 and 158-159: set_array is done, the colour scale        *)
(* raises, "except Exception" prints the error and main() ends.            *)
LoopFail ==
    /\ ~merror
    /\ miter < Len(shown)
    /\ ~shown[miter + 1].none
    /\ adaptive_color_scale(shown[miter + 1].runs, frame_count,
                            COLOR_SCALE_UPDATE_RATE, clim).raises
    /\ displayed' = Append(displayed, shown[miter + 1].runs)
    /\ merror' = TRUE
    /\ miter' = miter + 1
    /\ UNCHANGED <<shown, frame_count, clim, notDisplay>>

DisplayNext ==
    \/ LoopSkip
    \/ LoopShow
    \/ LoopFail

DisplaySpec == DisplayInit /\ [][DisplayNext]_vars

(* The bounds a recomputation on the matrix gives.                         *)
Recomputed(data) ==
    adaptive_color_scale(data, 0, COLOR_SCALE_UPDATE_RATE, clim)

(* The frame_count of the most recent recomputation before frame n.        *)
LastUpdate(n) == n - (n % COLOR_SCALE_UPDATE_RATE)

(* C21: adaptive_color_scale returns bounds for every frame_count, so the  *)
(* display loop is never ended by an error, and the bounds on display are  *)
(* those recomputed on the most recent frame whose frame_count is a        *)
(* multiple of update_rate.                                                *)
C21_BoundsEveryFrame ==
    /\ ~merror
    /\ Len(displayed) = frame_count
    /\ frame_count > 0 =>
          LET d == displayed[LastUpdate(frame_count - 1) + 1]
          IN  /\ clim.vmin = Recomputed(d).vmin
              /\ clim.vmax = Recomputed(d).vmax


(***************************************************************************)
(* studio.py: the moving-limb energy of _process_and_plot, one time step   *)
(* per step.  Bin j (from 0) of time step t holds t * 3^j, so a sum shows  *)
(* which bins went into it and how often.                                  *)
(***************************************************************************)
MaxBins == 6
MaxSteps == 2

RECURSIVE Pow3(_)
Pow3(k) == IF k = 0 THEN 1 ELSE 3 * Pow3(k - 1)

RECURSIVE Sum(_)
Sum(s) == IF s = <<>> THEN 0 ELSE Head(s) + Sum(Tail(s))

(* A Python slice bound on a sequence of length n: a negative bound counts *)
(* from the end, and the result is clipped to 0..n.                        *)
SliceBound(k, n) ==
    IF k < 0 THEN (IF k + n < 0 THEN 0 ELSE k + n)
    ELSE Min(k, n)

(* row[:stop] and row[start:]                                              *)
SliceTo(row, stop) ==
    [j \in 1..SliceBound(stop, Len(row)) |-> row[j]]

SliceFrom(row, start) ==
    LET a == SliceBound(start, Len(row))
    IN  [j \in 1..(Len(row) - a) |-> row[a + j]]

(* studio.py 167-168 *)
center_idx(md) == Len(md[1]) \div 2

(* int(0.5 / dop_res) for a positive resolution of res hundredths.         *)
ignore_bins(res) == 50 \div res

(* studio.py 171-172, for one time step.                                   *)
moving_energy_of(row, center, ignore) ==
    Sum(SliceTo(row, center - ignore)) + Sum(SliceFrom(row, center + ignore))

EnergyRow(t, D) == [j \in 1..D |-> t * Pow3(j - 1)]

(* Resolutions of 0.1 (the default), 0.13, 0.25, 0.5 and 1 m/s.            *)
DopResChoices == {10, 13, 25, 50, 100}

CadenceInit ==
    /\ \E D \in 1..MaxBins, T \in 1..MaxSteps :
           md_data = [t \in 1..T |-> EnergyRow(t, D)]
    /\ dop_res \in DopResChoices
    /\ moving_energy = <<>>
    /\ CoreIdle
    /\ OthersIdle("cadence")

CadenceStep ==
    /\ Len(moving_energy) < Len(md_data)
    /\ moving_energy' =
          Append(moving_energy,
                 moving_energy_of(md_data[Len(moving_energy) + 1],
                                  center_idx(md_data), ignore_bins(dop_res)))
    /\ UNCHANGED <<md_data, dop_res, notCadence>>

CadenceNext == CadenceStep

CadenceSpec == CadenceInit /\ [][CadenceNext]_vars

(* The bins (from 0) outside the guard band.                               *)
OutsideGuard ==
    LET c == center_idx(md_data)
        g == ignore_bins(dop_res)
    IN  {j \in 0..(Len(md_data[1]) - 1) : j < c - g \/ j >= c + g}

RECURSIVE SumOver(_, _)
SumOver(row, S) ==
    IF S = {} THEN 0
    ELSE LET j == CHOOSE x \in S : TRUE
         IN  row[j + 1] + SumOver(row, S \ {j})

(* C22: the moving-limb energy of every time step is the sum over exactly  *)
(* the Doppler bins outside [center - ignore, center + ignore), each once. *)
C22_GuardBand ==
    \A t \in 1..Len(moving_energy) :
        moving_energy[t] = SumOver(md_data[t], OutsideGuard)


(***************************************************************************)
(* The worker loop on a stream without pauses: any bytes, among them       *)
(* beginnings of the magic word, and then one well-formed frame.           *)
(***************************************************************************)
MaxPrefix == 4

(* The first three bytes of the magic word and a byte that is not in it.   *)
PrefixBytes == {UART_MAGIC_WORD[1], UART_MAGIC_WORD[2], UART_MAGIC_WORD[3], 0}

RECURSIVE ByteSeqs(_)
ByteSeqs(n) ==
    IF n = 0 THEN {<<>>}
    ELSE LET S == ByteSeqs(n - 1)
         IN  S \cup {Append(s, b) : s \in {t \in S : Len(t) = n - 1},
                                     b \in PrefixBytes}

ScanInit ==
    /\ sent = <<SplitFrame>>
    /\ stream \in {p \o SplitFrame.bytes : p \in ByteSeqs(MaxPrefix)}
    /\ pos = 0
    /\ pc = "idle"
    /\ index = 0
    /\ frameData = <<>>
    /\ bytes_to_read = 0
    /\ payload = <<>>
    /\ callStart = 0
    /\ results = <<>>
    /\ wpc = "top"
    /\ is_running = TRUE
    /\ workerErrors = 0
    /\ ParserIdle
    /\ ExtIdle

ScanSpec == ScanInit /\ [][Next]_vars

(* The magic word lies in s and ends at position e.                        *)
MagicEndsAt(s, e) ==
    /\ e >= MagicLen
    /\ e <= Len(s)
    /\ SubSeq(s, e - MagicLen + 1, e) = UART_MAGIC_WORD

(* The magic word occurs among the bytes the call has read up to p.        *)
MagicRead(p) ==
    \E e \in (callStart + MagicLen)..p : MagicEndsAt(stream, e)

(* C23: the scan of a call locks exactly on the last byte of the first     *)
(* occurrence of the magic word among the bytes the call has read,         *)
(* whatever comes before it, and holds the magic word as candidate buffer  *)
(* at lock; while it scans, no occurrence lies behind it.                  *)
C23_ScanComplete ==
    /\ pc = "scan" => ~MagicRead(pos)
    /\ pc = "header" =>
          /\ index = MagicLen
          /\ frameData = UART_MAGIC_WORD
          /\ MagicEndsAt(stream, pos)
          /\ ~MagicRead(pos - 1)

(* The scan has locked on a magic word that follows its own first byte,    *)
(* after other bytes.                                                      *)
C23_Witness ==
    /\ pc = "header"
    /\ callStart = 0
    /\ pos = MagicLen + MaxPrefix
    /\ stream[MaxPrefix] = UART_MAGIC_WORD[1]
    /\ stream[1] = 0


(***************************************************************************)
(* radar/utils/UARTconnection.py 13-43: the scan loop of the legacy        *)
(* reader, one pass of "while (1)" per step, on the streams of ScanSpec.   *)
(***************************************************************************)

(* dataCom.read(1): the next byte, or nothing at a pause or at the end.    *)
LegacyRead(com) ==
    [byte |-> ReadData(com.bytes, com.at, 1),
     com |-> [com EXCEPT !.at = ReadEnd(com.bytes, com.at, 1)]]

(* A mismatch branch that reads the next byte whatever index is.           *)
LegacyMismatch_alwaysread(i) == TRUE

(* UARTconnection.py 39: on a mismatch a new byte is read only when index  *)
(* is 0; otherwise the same byte is compared again, with magic[0].         *)
LegacyMismatch(i) == i = 0

LegacyInit ==
    /\ dataCom \in {[bytes |-> p \o SplitFrame.bytes, at |-> 0] :
                       p \in ByteSeqs(MaxPrefix)}
    /\ legacy_magicByte = <<>>
    /\ legacy_index = 0
    /\ legacy_frameData = <<>>
    /\ legacy_pc = "start"
    /\ CoreIdle
    /\ OthersIdle("legacy")

(* UARTconnection.py 16-18 *)
LegacyStart ==
    /\ legacy_pc = "start"
    /\ LET r == LegacyRead(dataCom)
       IN  /\ legacy_magicByte' = r.byte
           /\ dataCom' = r.com
    /\ legacy_pc' = "loop"
    /\ UNCHANGED <<legacy_index, legacy_frameData, notLegacy>>

(* UARTconnection.py 19-42: one pass of the loop.                          *)
LegacyPass ==
    /\ legacy_pc = "loop"
    /\ LET r == LegacyRead(dataCom)
       IN  IF Len(legacy_magicByte) < 1
             THEN /\ legacy_magicByte' = r.byte
                  /\ dataCom' = r.com
                  /\ UNCHANGED <<legacy_index, legacy_frameData, legacy_pc>>
             ELSE IF legacy_magicByte[1] = UART_MAGIC_WORD[legacy_index + 1]
               THEN /\ legacy_index' = legacy_index + 1
                    /\ legacy_frameData' =
                          Append(legacy_frameData, legacy_magicByte[1])
                    /\ IF legacy_index + 1 = MagicLen
                         THEN /\ legacy_pc' = "locked"
                              /\ UNCHANGED <<legacy_magicByte, dataCom>>
                         ELSE /\ legacy_magicByte' = r.byte
                              /\ dataCom' = r.com
                              /\ UNCHANGED legacy_pc
               ELSE /\ IF LegacyMismatch(legacy_index)
                         THEN /\ legacy_magicByte' = r.byte
                              /\ dataCom' = r.com
                         ELSE UNCHANGED <<legacy_magicByte, dataCom>>
                    /\ legacy_index' = 0
                    /\ legacy_frameData' = <<>>
                    /\ UNCHANGED legacy_pc
    /\ UNCHANGED notLegacy

LegacyNext ==
    \/ LegacyStart
    \/ LegacyPass

LegacySpec == LegacyInit /\ [][LegacyNext]_vars

(* sensor.py 49-69: the scan loop of read_raw_frame on the bytes s from    *)
(* position p on, none of them a pause: where it locks and with what.      *)
RECURSIVE ScanFrom(_, _, _, _)
ScanFrom(s, p, i, buf) ==
    IF i = MagicLen THEN [locked |-> TRUE, at |-> p, frameData |-> buf]
    ELSE IF p >= Len(s) THEN [locked |-> FALSE, at |-> p, frameData |-> buf]
    ELSE LET st == ScanStep(i, buf, s[p + 1])
         IN  ScanFrom(s, p + 1, st.index, st.frameData)

(* C24: when the legacy scan loop locks, it has consumed as many bytes as  *)
(* the scan loop of read_raw_frame consumes on the same stream before it   *)
(* locks, and holds the same candidate buffer; before it locks it has not  *)
(* read past the byte on which read_raw_frame locks.                       *)
C24_SameLock ==
    LET new == ScanFrom(dataCom.bytes, 0, 0, <<>>)
    IN  /\ legacy_pc = "locked" =>
              /\ new.locked
              /\ dataCom.at = new.at
              /\ legacy_frameData = new.frameData
        /\ legacy_pc = "loop" /\ new.locked => dataCom.at <= new.at

(* The legacy loop has locked after a mismatch on a byte that is the       *)
(* first byte of the magic word.                                           *)
C24_Witness ==
    /\ legacy_pc = "locked"
    /\ dataCom.at = MagicLen + MaxPrefix
    /\ dataCom.bytes[MaxPrefix] = UART_MAGIC_WORD[1]
    /\ dataCom.bytes[MaxPrefix - 1] = UART_MAGIC_WORD[1]


(* The bytes among the elements of s, the pauses left out.                 *)
BytesOf(s) == SelectSeq(s, LAMBDA b : b # GAP)

(* The bytes that call i has read from the source.                         *)
ReadBy(i) == BytesOf(SubSeq(stream, results[i].from + 1, results[i].to))

(* The stream pauses inside the magic word of the frame: after at least    *)
(* one and at most seven of its bytes.                                     *)
MagicSplit ==
    \E k \in 2..(2 * MagicLen) :
        /\ k <= Len(stream)
        /\ stream[k] = GAP
        /\ Len(BytesOf(Take(stream, k))) \in 1..(MagicLen - 1)

(* C25: every call starts to scan with match index 0 and an empty          *)
(* candidate buffer; a returned frame is made of bytes read during the     *)
(* same call (the last ones it read); and when a pause splits the magic    *)
(* word, the call that read its first part returns None and no later call  *)
(* recognizes the rest.                                                    *)
C25_NoStateBetweenCalls ==
    /\ (pc = "scan" /\ pos = callStart) => (index = 0 /\ frameData = <<>>)
    /\ pc = "idle" => (index = 0 /\ frameData = <<>>)
    /\ \A i \in DOMAIN results :
          results[i].raw # <<>> =>
              LET read == ReadBy(i)
              IN  /\ Len(results[i].raw) <= Len(read)
                  /\ results[i].raw
                        = Drop(read, Len(read) - Len(results[i].raw))
    /\ MagicSplit => \A i \in DOMAIN results : results[i].raw = <<>>

(* A pause after the third byte of the magic word: the first call read     *)
(* three bytes and returned None, the second read all the rest and         *)
(* returned None as well.                                                  *)
C25_Witness ==
    /\ stream[4] = GAP
    /\ Len(results) = 2
    /\ results[1].to = 4
    /\ results[1].raw = <<>>
    /\ results[2].to = Len(stream)
    /\ results[2].raw = <<>>
    /\ Len(stream) = Len(SplitFrame.bytes) + 1


(* The magic word lies in the stream behind position p and ends at or      *)
(* before position p + room, with no pause between p and its end.          *)
MagicBehind(p, room) ==
    \E e \in (p + MagicLen)..Min(p + room, Len(stream)) :
        /\ MagicEndsAt(stream, e)
        /\ \A k \in (p + 1)..e : stream[k] # GAP

(* C26: a call that returns a frame has read the bytes it skipped before   *)
(* the magic word and then the `length` bytes of the frame, no more: the   *)
(* frame is the tail of what the call read, the last byte read is the last *)
(* byte of the frame, and the next call starts right behind it.  A call    *)
(* that rejects the length has read 16 bytes from the start of the magic   *)
(* word; the next call starts right behind the length field, and when a    *)
(* magic word lies in the claimed payload (no pause before its end) that   *)
(* call locks on it instead of timing out in the scan.                     *)
C26_ReadPosition ==
    \A i \in DOMAIN results :
        LET r == results[i]
            read == ReadBy(i)
        IN  /\ (i < Len(results)) => results[i + 1].from = r.to
            /\ r.cause = "ok" =>
                  /\ Len(r.raw) = DeclaredLength(r.raw)
                  /\ Len(read) >= Len(r.raw)
                  /\ Drop(read, Len(read) - Len(r.raw)) = r.raw
                  /\ ~\E e \in 1..(Len(read) - Len(r.raw)) :
                         MagicEndsAt(read, e)
                  /\ stream[r.to] = r.raw[Len(r.raw)]
            /\ r.cause = "badLength" =>
                  /\ r.to - r.from >= 16
                  /\ SubSeq(stream, r.to - 15, r.to - 8) = UART_MAGIC_WORD
                  /\ \A k \in (r.to - 15)..r.to : stream[k] # GAP
                  /\ ~\E e \in (r.from + MagicLen)..(r.to - 9) :
                         MagicEndsAt(stream, e)
                  /\ (/\ i < Len(results)
                      /\ MagicBehind(r.to,
                            FromLE32(SubSeq(stream, r.to - 3, r.to)) - 16))
                        => results[i + 1].cause # "timeout"

(* A frame came back from a call that first skipped two bytes, and a call  *)
(* locked on the magic word inside the payload of the frame that the call  *)
(* before it had rejected for its length.                                  *)
C26_Witness ==
    /\ \E i \in DOMAIN results :
          /\ results[i].cause = "ok"
          /\ results[i].to - results[i].from = Len(results[i].raw) + 2
    /\ \E i \in DOMAIN results :
          /\ results[i].cause = "badLength"
          /\ i < Len(results)
          /\ MagicBehind(results[i].to,
                FromLE32(SubSeq(stream, results[i].to - 3, results[i].to)) - 16)
          /\ results[i + 1].cause # "timeout"
          /\ results[i + 1].from = results[i].to


(* The TLVs the loop has gone past so far.                                 *)
Processed == IF ppc = "start" \/ pout.error = 1 THEN 0 ELSE pin.ntlv - pleft

(* How far the cursor is into the buffer.                                  *)
Cursor == Len(pbuf) - Len(pdata)

(* C27: the cursor of the TLV loop never leaves the frame buffer (what is  *)
(* left to parse is always a tail of the buffer); an iteration goes past a *)
(* TLV only when its 8 header bytes and all tlvLength payload bytes lie in *)
(* what is left, hands exactly those payload bytes to the decoder of its   *)
(* type, and moves the cursor by 8 + tlvLength; and the number of TLVs     *)
(* gone past is at most (len(buffer) - 40) div 8, whatever numTLVs says.   *)
C27_CursorSafety ==
    /\ [](/\ Cursor \in 0..Len(pbuf)
          /\ pdata = Drop(pbuf, Cursor)
          /\ Processed > 0 => Processed <= (Len(pbuf) - frameHeaderLen) \div 8
          /\ Processed <= Len(pin.tlvs))
    /\ [][(ppc = "loop" /\ pleft' = pleft - 1) =>
            LET tlvType == FromLE32(SubSeq(pdata, 1, 4))
                tlvLength == FromLE32(SubSeq(pdata, 5, 8))
            IN  /\ tlvHeaderLength + tlvLength <= Len(pdata)
                /\ pdata' = Drop(pdata, tlvHeaderLength + tlvLength)
                /\ pout' = CallParser(tlvType,
                                      SubSeq(pdata, tlvHeaderLength + 1,
                                             tlvHeaderLength + tlvLength),
                                      tlvLength, pout)]_vars

(* A header that declares a huge number of TLVs on a buffer that holds     *)
(* two: the loop has gone past both and is done.                           *)
C27_Witness ==
    /\ ppc = "done"
    /\ pin.ntlv = HugeCount
    /\ Processed = 2
    /\ Len(pdata) = 0
    /\ Cursor > frameHeaderLen + 2 * tlvHeaderLength


(* C28: a call of read_raw_frame that has begun returns, on a source that  *)
(* reads empty in the end; a payload read that is not empty makes          *)
(* bytes_to_read smaller and never negative, and the payload loop is left  *)
(* by the very step that finds bytes_to_read at 0 or reads nothing.        *)
C28_Terminates ==
    /\ (pc # "idle") ~> (pc = "idle")
    /\ [][(/\ pc = "payload"
           /\ pos' # pos
           /\ ReadCount(stream, pos, bytes_to_read) > 0)
          => (/\ bytes_to_read' < bytes_to_read
              /\ bytes_to_read' >= 0
              /\ bytes_to_read' = bytes_to_read
                                    - ReadCount(stream, pos, bytes_to_read))]_vars
    /\ [][(/\ pc = "payload"
           /\ <<pos, results>>' # <<pos, results>>
           /\ \/ bytes_to_read = 0
              \/ ReadCount(stream, pos, bytes_to_read) = 0)
          => pc' = "idle"]_vars

(* The call came back with the frame after a payload read that a pause     *)
(* cut short.                                                              *)
C28_Witness ==
    /\ pc = "idle"
    /\ Len(results) = 1
    /\ results[1].cause = "ok"
    /\ stream[25] = GAP
    /\ results[1].to = Len(SplitFrame.bytes) + 1


(* The frames among the first n delivered whose RDHM holds exactly         *)
(* num_range_bins * num_vel_bins samples.                                  *)
RightSize(n) ==
    {k \in 1..n :
        /\ ~delivered[k].none
        /\ delivered[k].d.RDHM.present
        /\ Len(delivered[k].d.RDHM.val)
              = bins.num_range_bins * bins.num_vel_bins}

(* C30: the worker has emitted one heatmap of max_bin rows and             *)
(* num_vel_bins columns for every handled frame whose RDHM has the         *)
(* configured number of samples, and nothing for any other frame; it has   *)
(* left its loop only after stop.                                          *)
C30_OneHeatmapPerFrame ==
    /\ Len(emitted) = Cardinality(RightSize(Handled))
    /\ \A i \in DOMAIN emitted :
          /\ Len(emitted[i]) = bins.max_bin
          /\ \A j \in DOMAIN emitted[i] :
                Len(emitted[i][j]) = bins.num_vel_bins
    /\ wpc = "exited" => ~is_running


(***************************************************************************)
(* radar.py: the worker thread and toggle_recording of the GUI thread.     *)
(* The statements of the loop body are steps of their own, so that a call  *)
(* of the GUI thread can fall between any two of them.                     *)
(***************************************************************************)

PairInit ==
    /\ delivered \in DeliveredSeqs(MaxDelivered)
    /\ rnext = 0
    /\ bins \in WorkerBins
    /\ is_recording = FALSE
    /\ recorded_session_rdhm = <<>>
    /\ recorded_session_timestamps = <<>>
    /\ emitted = <<>>
    /\ app_is_recording = FALSE
    /\ gui_pc = "idle"
    /\ run_rd_matrix_cropped = <<>>
    /\ sessions = <<>>
    /\ since = 0
    /\ CoreIdleButRec
    /\ OthersIdle("toggle")

(* radar.py 75-100, statement by statement: the tests of lines 75 and 80   *)
(* with the reshape and the crop, the test of line 88, the two appends of  *)
(* lines 89 and 90, and the emit of line 97.                               *)
RunBody ==
    /\ wpc \in {"got", "cropped", "append_rdhm", "append_timestamp", "emit"}
    /\ LET frame == delivered[rnext]
       IN  CASE wpc = "got" ->
                  IF frame.none \/ ~frame.d.RDHM.present
                    THEN /\ wpc' = "top"
                         /\ UNCHANGED <<run_rd_matrix_cropped, workerErrors>>
                    ELSE LET sz == size(frame.d.RDHM.val)
                         IN  IF sz.raises
                               THEN /\ wpc' = "top"
                                    /\ workerErrors' = workerErrors + 1
                                    /\ UNCHANGED run_rd_matrix_cropped
                               ELSE IF sz.val
                                        # bins.num_range_bins * bins.num_vel_bins
                                 THEN /\ wpc' = "top"
                                      /\ UNCHANGED <<run_rd_matrix_cropped,
                                                     workerErrors>>
                                 ELSE /\ wpc' = "cropped"
                                      /\ run_rd_matrix_cropped' = CroppedFrame(rnext)
                                      /\ UNCHANGED workerErrors
             [] wpc = "cropped" ->
                  /\ wpc' = IF is_recording THEN "append_rdhm" ELSE "emit"
                  /\ UNCHANGED <<run_rd_matrix_cropped, workerErrors>>
             [] wpc = "append_rdhm" ->
                  /\ wpc' = "append_timestamp"
                  /\ UNCHANGED <<run_rd_matrix_cropped, workerErrors>>
             [] wpc = "append_timestamp" ->
                  /\ wpc' = "emit"
                  /\ UNCHANGED <<run_rd_matrix_cropped, workerErrors>>
             [] wpc = "emit" ->
                  /\ wpc' = "top"
                  /\ UNCHANGED <<run_rd_matrix_cropped, workerErrors>>
    /\ recorded_session_rdhm' =
          IF wpc = "append_rdhm"
            THEN Append(recorded_session_rdhm, run_rd_matrix_cropped)
            ELSE recorded_session_rdhm
    /\ recorded_session_timestamps' =
          IF wpc = "append_timestamp"
            THEN Append(recorded_session_timestamps, rnext)
            ELSE recorded_session_timestamps
    /\ emitted' = IF wpc = "emit"
                    THEN Append(emitted, ui_matrix(run_rd_matrix_cropped))
                    ELSE emitted
    /\ UNCHANGED <<delivered, rnext, bins, is_recording, is_running,
                   app_is_recording, gui_pc, sessions, since, notToggle>>

(* radar.py 295-303 with 103-106: the RECORD button. start_recording is    *)
(* three assignments, and the worker may run between any two of them.      *)
ToggleStart ==
    /\ gui_pc \in {"idle", "start_timestamps", "start_flag"}
    /\ gui_pc = "idle" => ~app_is_recording
    /\ app_is_recording' = TRUE
    /\ gui_pc' = CASE gui_pc = "idle" -> "start_timestamps"
                   [] gui_pc = "start_timestamps" -> "start_flag"
                   [] gui_pc = "start_flag" -> "idle"
    /\ recorded_session_rdhm' =
          IF gui_pc = "idle" THEN <<>> ELSE recorded_session_rdhm
    /\ recorded_session_timestamps' =
          IF gui_pc = "start_timestamps"
            THEN <<>> ELSE recorded_session_timestamps
    /\ is_recording' = IF gui_pc = "start_flag" THEN TRUE ELSE is_recording
    /\ since' = IF gui_pc = "idle" THEN Handled ELSE since
    /\ UNCHANGED <<delivered, rnext, bins, emitted, wpc, is_running,
                   workerErrors, run_rd_matrix_cropped, sessions, notToggle>>

(* radar.py 313-315 with 108-110: the STOP button; rdhm_data and           *)
(* timestamps are the worker's two lists themselves, not copies.           *)
ToggleStop ==
    /\ gui_pc = "idle"
    /\ app_is_recording
    /\ app_is_recording' = FALSE
    /\ is_recording' = FALSE
    /\ gui_pc' = "stopped"
    /\ UNCHANGED <<delivered, rnext, bins, recorded_session_rdhm,
                   recorded_session_timestamps, emitted, wpc, is_running,
                   workerErrors, run_rd_matrix_cropped, sessions, since,
                   notToggle>>

(* radar.py 324-340: the lists are read and, unless the first is empty,    *)
(* saved.                                                                  *)
ToggleSave ==
    /\ gui_pc = "stopped"
    /\ sessions' =
          IF Len(recorded_session_rdhm) > 0
            THEN Append(sessions,
                        [rdhm |-> recorded_session_rdhm,
                         timestamps |-> recorded_session_timestamps])
            ELSE sessions
    /\ gui_pc' = "idle"
    /\ UNCHANGED <<delivered, rnext, bins, is_recording, recorded_session_rdhm,
                   recorded_session_timestamps, emitted, wpc, is_running,
                   workerErrors, app_is_recording, run_rd_matrix_cropped, since,
                   notToggle>>

PairNext ==
    \/ RunGet
    \/ RunBody
    \/ ToggleStart
    \/ ToggleStop
    \/ ToggleSave
    \/ Stop
    \/ WorkerExit

PairSpec == PairInit /\ [][PairNext]_vars

=============================================================================
